---- MODULE Spec2Model ----
(***************************************************************************)
(* Convergence engine of cluster-api-provider-gcp: the network reconciler  *)
(* (cloud/services/compute/networks), the legacy compute service (network, *)
(* firewall rules, bastion) and the provider they drive.                   *)
(*                                                                         *)
(* A string is a sequence of tokens.  The tokens "/", ":", "?" and "#" are *)
(* the characters of that name; every other token is a run of letters.     *)
(***************************************************************************)
EXTENDS Naturals, Sequences, FiniteSets, TLC

VARIABLES
  svc,        \* the service this run drives: networks, compute (legacy network), firewall, bastion, parse
  sharedVpc,  \* scope.IsSharedVpc()
  cloud,      \* provider state: kind -> (key -> resource)
  status,     \* the cluster status (and the spec fields the legacy code writes back)
  lastOp,     \* the operation of the last invocation ("none" before the first)
  lastFault,  \* the fault that invocation has met
  calls,      \* the remote calls that invocation has issued, in order
  result,     \* what it returned: ok, err, panic; "running" while it is blocked in a
              \* call; "crashed" when the process stopped while it was
  again,      \* it repeated the operation of the invocation before it, which had returned ok
  retry,      \* it repeated the operation of the invocation before it, which had not
              \* come to an end: it had returned an error, panicked or crashed
  entryCloud, \* while it is running: the provider state it started from
  entryStatus, \* while it is running: the status it started from
  ref,        \* parse service: the firewall network field under examination
  parsed      \* parse service: what getFirewallNetworkName returned for ref

vars ==
  <<svc, sharedVpc, cloud, status, lastOp, lastFault, calls, result, again, retry,
    entryCloud, entryStatus, ref, parsed>>

----------------------------------------------------------------------------
(* Bounds *)

NumSubnets == 2
MaxFaultAt == 16
MaxRefLen == 4

----------------------------------------------------------------------------
(* Strings *)

Nil == <<>>

RECURSIVE IndexFrom(_, _, _)
IndexFrom(s, c, i) ==
  IF i > Len(s) THEN 0 ELSE IF s[i] = c THEN i ELSE IndexFrom(s, c, i + 1)

\* strings.Index: the first position of c in s, 0 when absent
Index(s, c) == IndexFrom(s, c, 1)

RECURSIVE LastIndexFrom(_, _, _)
LastIndexFrom(s, c, i) ==
  IF i = 0 THEN 0 ELSE IF s[i] = c THEN i ELSE LastIndexFrom(s, c, i - 1)

\* strings.LastIndex
LastIndex(s, c) == LastIndexFrom(s, c, Len(s))

Count(s, c) == Cardinality({i \in 1..Len(s) : s[i] = c})

Drop(s, n) == SubSeq(s, n + 1, Len(s))
Take(s, n) == SubSeq(s, 1, n)

HasPrefix(s, p) == Len(s) >= Len(p) /\ Take(s, Len(p)) = p
HasSuffix(s, p) == Len(s) >= Len(p) /\ Drop(s, Len(s) - Len(p)) = p

\* strings.Cut(s, c): the text before the first c
CutBefore(s, c) == IF Index(s, c) = 0 THEN s ELSE Take(s, Index(s, c) - 1)

\* strings.Split(s, "/") and its last element
LastSplit(s) == Drop(s, LastIndex(s, "/"))

IsLetters(t) == t \notin {"/", ":", "?", "#"}

----------------------------------------------------------------------------
(* net/url.Parse and path.Base, as getFirewallNetworkName uses them *)

\* url.getScheme: [scheme, rest, err]
RECURSIVE GetSchemeFrom(_, _)
GetSchemeFrom(s, i) ==
  IF i > Len(s) THEN [scheme |-> Nil, rest |-> s, err |-> FALSE]
  ELSE IF IsLetters(s[i]) THEN GetSchemeFrom(s, i + 1)
  ELSE IF s[i] = ":"
    THEN IF i = 1 THEN [scheme |-> Nil, rest |-> Nil, err |-> TRUE]
         ELSE [scheme |-> Take(s, i - 1), rest |-> Drop(s, i), err |-> FALSE]
  ELSE [scheme |-> Nil, rest |-> s, err |-> FALSE]

GetScheme(s) == GetSchemeFrom(s, 1)

\* url.parseHost: a host with a colon needs a valid (numeric or empty) port
ValidHost(auth) ==
  LastIndex(auth, ":") = 0 \/ LastIndex(auth, ":") = Len(auth)

\* url.Parse(raw): [path, err]
UrlParse(raw) ==
  LET u == CutBefore(raw, "#")
      sc == GetScheme(u)
      rest == IF Len(sc.rest) > 0 /\ sc.rest[Len(sc.rest)] = "?" /\ Count(sc.rest, "?") = 1
              THEN Take(sc.rest, Len(sc.rest) - 1)
              ELSE CutBefore(sc.rest, "?")
      rooted == HasPrefix(rest, <<"/">>)
      auth == Drop(rest, 2)
      host == CutBefore(auth, "/")
  IN
  IF sc.err THEN [path |-> Nil, err |-> TRUE]
  ELSE IF ~rooted /\ sc.scheme # Nil THEN [path |-> Nil, err |-> FALSE]
  ELSE IF ~rooted /\ Index(CutBefore(rest, "/"), ":") # 0 THEN [path |-> Nil, err |-> TRUE]
  ELSE IF (sc.scheme # Nil \/ ~HasPrefix(rest, <<"/", "/", "/">>)) /\ HasPrefix(rest, <<"/", "/">>)
    THEN IF ~ValidHost(host) THEN [path |-> Nil, err |-> TRUE]
         ELSE [path |-> Drop(auth, Len(host)), err |-> FALSE]
  ELSE [path |-> rest, err |-> FALSE]

RECURSIVE StripSlashes(_)
StripSlashes(p) ==
  IF Len(p) > 0 /\ p[Len(p)] = "/" THEN StripSlashes(Take(p, Len(p) - 1)) ELSE p

\* path.Base
PathBase(p) ==
  IF p = Nil THEN <<".">>
  ELSE LET q == LastSplit(StripSlashes(p))
       IN IF q = Nil THEN <<"/">> ELSE q

\* the mutant of getFirewallNetworkName: the first path segment instead of the last
getFirewallNetworkNameFirst(network) ==
  IF Len(network) = 0 THEN [name |-> Nil, err |-> FALSE]
  ELSE LET u == UrlParse(network)
       IN IF u.err THEN [name |-> Nil, err |-> TRUE]
          ELSE [name |-> CutBefore(u.path, "/"), err |-> FALSE]

\* getFirewallNetworkName(firewall): [name, err] from the firewall's network field
getFirewallNetworkName(network) ==
  IF Len(network) = 0 THEN [name |-> Nil, err |-> FALSE]
  ELSE LET u == UrlParse(network)
       IN IF u.err THEN [name |-> Nil, err |-> TRUE]
          ELSE [name |-> PathBase(u.path), err |-> FALSE]

----------------------------------------------------------------------------
(* Names, tags and declared inputs *)

ClusterName == <<"c1">>
NetworkName == <<"net">>

\* infrav1.ClusterTagKey: the ownership tag, a fixed string keyed by the cluster name
ClusterTagKey(name) == <<"capg-cluster-">> \o name

OwnTag == ClusterTagKey(ClusterName)
ForeignTag == ClusterTagKey(<<"c2">>)

k8sNodeRouteTag == <<"k8s-node-route">>

getRouterName(network) == network \o <<"-router">>
getRouterNatName(network) == network \o <<"-nat">>

\* the provider's self-link of a resource
SelfLink(kind, key) == <<"projects", "/", "p", "/", "global", "/", kind, "/">> \o key

NetLink == SelfLink("networks", NetworkName)

\* scope.SubnetworkSpec() / scope.Subnets(): the declared subnets, in order
SubnetNames == [i \in 1..NumSubnets |-> <<"subnet", ToString(i)>>]

Kinds == {"networks", "subnetworks", "routers", "routes", "firewalls", "instances"}

NoArg == [none |-> TRUE]

----------------------------------------------------------------------------
(* The provider: Get / Insert / Delete / List / Patch of one resource kind. *)
(* m is the invocation: the provider state, the status, the calls issued so *)
(* far and the fault plan.  An invocation blocks in each remote call: m.upto *)
(* is the number of calls it is run through (every call when m.whole), and  *)
(* the call after that one suspends it (m.cut), the status being kept as it *)
(* was at that moment (m.frozen).  The call whose position in the           *)
(* invocation is fault.at meets fault.kind: "err" an RPC error, "operr" an  *)
(* accepted operation that ends in failure, "gone" a target that another    *)
(* party removed before the Delete reached it; m.hit tells that it did.     *)
(* The clients of networks.Service block until the mutation is done.  The   *)
(* clients of the legacy compute.Service answer a mutation with an          *)
(* operation at once (InsertDo, DeleteDo, PatchDo: the request is accepted, *)
(* nothing has changed yet) and the invocation then waits for the operation *)
(* in a call of its own (ForComputeOperation), during which the provider    *)
(* carries the mutation out.                                                *)

Exists(c, kind, key) == key \in DOMAIN c[kind]

Remove(c, kind, key) ==
  [c EXCEPT ![kind] = [k \in (DOMAIN @) \ {key} |-> @[k]]]

Put(c, kind, key, obj) ==
  [c EXCEPT ![kind] = [k \in (DOMAIN @) \cup {key} |-> IF k = key THEN obj ELSE @[k]]]

\* the resources of the other kinds that refer to the network
Dependents(c) ==
  {kk \in {<<kind, k>> : kind \in Kinds \ {"networks"}, k \in UNION {DOMAIN c[x] : x \in Kinds}} :
     /\ kk[2] \in DOMAIN c[kk[1]]
     /\ c[kk[1]][kk[2]].network = NetLink}

Hit(m) == m.fault.at = Len(m.calls) + 1

\* the invocation is not run through its next call
Suspended(m) == m.cut \/ (~m.whole /\ Len(m.calls) >= m.upto)

\* the invocation blocked in the call it was about to issue
Cut(m) == [m EXCEPT !.cut = TRUE, !.frozen = IF m.cut THEN @ ELSE m.status]

\* the fault of the plan fell on the call just logged
Struck(m) == [m EXCEPT !.hit = TRUE]

Logged(m, verb, kind, key, arg) ==
  [m EXCEPT !.calls = Append(@, [verb |-> verb, kind |-> kind, key |-> key, arg |-> arg])]

\* network.Subnetworks: the URLs of the subnetworks of the network
Subnetworks(c) ==
  LET Has(k) == Exists(c, "subnetworks", k) /\ c["subnetworks"][k].network = NetLink
      names == SelectSeq(SubnetNames, Has)
  IN [j \in 1..Len(names) |-> SelfLink("subnetworks", names[j])]

\* what a Get returns: the stored resource with the fields the provider adds
\* (name, self-link, a network's subnetworks, an instance's status)
View(c, kind, key) ==
  [name |-> key,
   selfLink |-> SelfLink(kind, key),
   res |-> c[kind][key],
   subnetworks |-> IF kind = "networks" THEN Subnetworks(c) ELSE <<>>,
   status |-> IF kind = "instances" THEN <<"RUNNING">> ELSE Nil]

CloudGet(m0, kind, key) ==
  LET m == Logged(m0, "Get", kind, key, NoArg) IN
  IF Suspended(m0) THEN [m |-> Cut(m0), rc |-> "cut", val |-> NoArg]
  ELSE IF Hit(m0) /\ m0.fault.kind = "err" THEN [m |-> Struck(m), rc |-> "err", val |-> NoArg]
  ELSE IF Exists(m.cloud, kind, key)
    THEN [m |-> m, rc |-> "ok", val |-> View(m.cloud, kind, key)]
  ELSE [m |-> m, rc |-> "notfound", val |-> NoArg]

CloudInsert(m0, kind, key, obj) ==
  LET m == Logged(m0, "Insert", kind, key, obj) IN
  IF Suspended(m0) THEN [m |-> Cut(m0), rc |-> "cut"]
  ELSE IF Hit(m0) /\ m0.fault.kind \in {"err", "operr"} THEN [m |-> Struck(m), rc |-> m0.fault.kind]
  ELSE IF Exists(m.cloud, kind, key) THEN [m |-> m, rc |-> "err"]
  ELSE [m |-> [m EXCEPT !.cloud = Put(@, kind, key, obj)], rc |-> "ok"]

\* the provider rejects the deletion of a network that still has dependents
Deletable(c, kind, key) ==
  Exists(c, kind, key) /\ (kind = "networks" => Dependents(c) = {})

\* a target that is there and can go when the Delete arrives may have been
\* removed by another party just before: the Delete then answers NotFound
CloudDelete(m0, kind, key) ==
  LET m == Logged(m0, "Delete", kind, key, NoArg) IN
  IF Suspended(m0) THEN [m |-> Cut(m0), rc |-> "cut"]
  ELSE IF Hit(m0) /\ m0.fault.kind \in {"err", "operr"} THEN [m |-> Struck(m), rc |-> m0.fault.kind]
  ELSE IF ~Exists(m.cloud, kind, key) THEN [m |-> m, rc |-> "notfound"]
  ELSE IF ~Deletable(m.cloud, kind, key) THEN [m |-> m, rc |-> "err"]
  ELSE IF Hit(m0) /\ m0.fault.kind = "gone"
    THEN [m |-> Struck([m EXCEPT !.cloud = Remove(@, kind, key)]), rc |-> "notfound"]
  ELSE [m |-> [m EXCEPT !.cloud = Remove(@, kind, key)], rc |-> "ok"]

\* X.Insert(...).Do() of the legacy clients: the request is refused, or it is
\* accepted and answered with the operation op, the resource not being there yet
InsertDo(m0, kind, key, obj) ==
  LET m == Logged(m0, "Insert", kind, key, obj)
      op == [verb |-> "Insert", kind |-> kind, key |-> key, arg |-> obj]
  IN
  IF Suspended(m0) THEN [m |-> Cut(m0), rc |-> "cut", op |-> op]
  ELSE IF Hit(m0) /\ m0.fault.kind = "err" THEN [m |-> Struck(m), rc |-> "err", op |-> op]
  ELSE IF Exists(m.cloud, kind, key) THEN [m |-> m, rc |-> "err", op |-> op]
  ELSE [m |-> m, rc |-> "ok", op |-> op]

\* X.Delete(...).Do() of the legacy clients
DeleteDo(m0, kind, key) ==
  LET m == Logged(m0, "Delete", kind, key, NoArg)
      op == [verb |-> "Delete", kind |-> kind, key |-> key, arg |-> NoArg]
  IN
  IF Suspended(m0) THEN [m |-> Cut(m0), rc |-> "cut", op |-> op]
  ELSE IF Hit(m0) /\ m0.fault.kind = "err" THEN [m |-> Struck(m), rc |-> "err", op |-> op]
  ELSE IF ~Exists(m.cloud, kind, key) THEN [m |-> m, rc |-> "notfound", op |-> op]
  ELSE IF ~Deletable(m.cloud, kind, key) THEN [m |-> m, rc |-> "err", op |-> op]
  ELSE IF Hit(m0) /\ m0.fault.kind = "gone"
    THEN [m |-> Struck([m EXCEPT !.cloud = Remove(@, kind, key)]), rc |-> "notfound", op |-> op]
  ELSE [m |-> m, rc |-> "ok", op |-> op]

\* X.Patch(...).Do() of the legacy clients
PatchDo(m0, kind, key, obj) ==
  LET m == Logged(m0, "Patch", kind, key, obj)
      op == [verb |-> "Patch", kind |-> kind, key |-> key, arg |-> obj]
  IN
  IF Suspended(m0) THEN [m |-> Cut(m0), rc |-> "cut", op |-> op]
  ELSE IF Hit(m0) /\ m0.fault.kind = "err" THEN [m |-> Struck(m), rc |-> "err", op |-> op]
  ELSE IF ~Exists(m.cloud, kind, key) THEN [m |-> m, rc |-> "err", op |-> op]
  ELSE [m |-> m, rc |-> "ok", op |-> op]

\* the provider carries out the mutation an accepted request asked for
Carried(c, op) ==
  IF op.verb = "Delete" THEN Remove(c, op.kind, op.key)
  ELSE IF op.verb \in {"Insert", "Patch"} THEN Put(c, op.kind, op.key, op.arg)
  ELSE c

\* wait.ForComputeOperation(op): the invocation blocks until the operation is
\* terminal.  The operation ends in success; or it ends in failure and nothing
\* has changed ("operr"); or the wait itself fails, by a timeout, a
\* cancellation or a failed poll, while the provider carries the mutation
\* out ("err")
ForComputeOperation(m0, op) ==
  LET m == Logged(m0, "Wait", op.kind, op.key, NoArg)
      done == [m EXCEPT !.cloud = Carried(@, op)]
  IN
  IF Suspended(m0) THEN [m |-> Cut(m0), rc |-> "cut"]
  ELSE IF Hit(m0) /\ m0.fault.kind = "operr" THEN [m |-> Struck(m), rc |-> "operr"]
  ELSE IF Hit(m0) /\ m0.fault.kind = "err" THEN [m |-> Struck(done), rc |-> "err"]
  ELSE [m |-> done, rc |-> "ok"]

\* gcperrors.IsNotFound
IsNotFound(rc) == rc = "notfound"

\* where an invocation stands when it has been run through m.upto calls:
\* returned with res, or blocked in its next call ("running")
Return(m, res) ==
  [cloud |-> m.cloud,
   status |-> IF m.cut THEN m.frozen ELSE m.status,
   calls |-> m.calls,
   res |-> IF m.cut THEN "running" ELSE res,
   hit |-> m.hit]

\* a List filter: on the description (Nil: any) and on a prefix of the name
NoFilter == [description |-> Nil, prefix |-> Nil]

Matches(fl, k, r) ==
  /\ (fl.description = Nil \/ r.description = fl.description)
  /\ HasPrefix(k, fl.prefix)

\* List: the resources of a kind that pass the filter, in the provider's order
CloudList(m0, kind, order, fl) ==
  LET m == Logged(m0, "List", kind, Nil, NoArg)
      Keep(k) == Exists(m.cloud, kind, k) /\ Matches(fl, k, m.cloud[kind][k])
  IN
  IF Suspended(m0) THEN [m |-> Cut(m0), rc |-> "cut", val |-> <<>>]
  ELSE IF Hit(m0) /\ m0.fault.kind = "err" THEN [m |-> Struck(m), rc |-> "err", val |-> <<>>]
  ELSE [m |-> m, rc |-> "ok", val |-> SelectSeq(order, Keep)]

----------------------------------------------------------------------------
(* The declared specification (scope) *)

\* scope.NetworkSpec(): the declared network, tagged with the cluster's tag
NetworkSpec(st) ==
  [description |-> ClusterTagKey(ClusterName), auto |-> st.specAuto # "false"]

\* scope.SubnetworkSpec()[i]
SubnetworkSpec(i) == [name |-> SubnetNames[i], network |-> NetLink]

\* scope.NatRouterSpec(): name <network>-router, one NAT config <network>-nat
NatRouterSpec ==
  [name |-> getRouterName(NetworkName), description |-> Nil, network |-> Nil,
   nats |-> <<getRouterNatName(NetworkName)>>]

\* the routes of the project, in the order the provider lists them
RouteOrder ==
  << <<"c1", "-", "r1">>, <<"c1", "-", "r2">>, <<"c2", "-", "r3">> >>

----------------------------------------------------------------------------
(* networks.Service (cloud/services/compute/networks/reconcile.go).        *)
(* A handler is written as its steps, last step first: each step takes the *)
(* result of the provider call before it.                                  *)

\* the mutant of createOrGetNetwork: an absent network is created in shared-VPC
\* mode too
createOrGetNetworkAlwaysCreates(m0) ==
  LET Fetched(g2) == [m |-> g2.m, err |-> g2.rc # "ok", val |-> g2.val]
      Inserted(i) ==
        IF i.rc # "ok" THEN [m |-> i.m, err |-> TRUE, val |-> NoArg]
        ELSE Fetched(CloudGet(i.m, "networks", NetworkName))
      Looked(g) ==
        IF g.rc = "ok" THEN [m |-> g.m, err |-> FALSE, val |-> g.val]
        ELSE IF ~IsNotFound(g.rc) THEN [m |-> g.m, err |-> TRUE, val |-> NoArg]
        ELSE Inserted(CloudInsert(g.m, "networks", NetworkName, NetworkSpec(g.m.status)))
  IN Looked(CloudGet(m0, "networks", NetworkName))

\* the mutant of createOrGetNetwork: every failure of the Get is taken for
\* NotFound
createOrGetNetworkOnAnyError(m0) ==
  LET Fetched(g2) == [m |-> g2.m, err |-> g2.rc # "ok", val |-> g2.val]
      Inserted(i) ==
        IF i.rc # "ok" THEN [m |-> i.m, err |-> TRUE, val |-> NoArg]
        ELSE Fetched(CloudGet(i.m, "networks", NetworkName))
      Looked(g) ==
        IF g.rc = "ok" THEN [m |-> g.m, err |-> FALSE, val |-> g.val]
        ELSE IF sharedVpc THEN [m |-> g.m, err |-> TRUE, val |-> NoArg]
        ELSE Inserted(CloudInsert(g.m, "networks", NetworkName, NetworkSpec(g.m.status)))
  IN Looked(CloudGet(m0, "networks", NetworkName))

createOrGetNetwork(m0) ==
  LET Fetched(g2) == [m |-> g2.m, err |-> g2.rc # "ok", val |-> g2.val]
      Inserted(i) ==
        IF i.rc # "ok" THEN [m |-> i.m, err |-> TRUE, val |-> NoArg]
        ELSE Fetched(CloudGet(i.m, "networks", NetworkName))
      Looked(g) ==
        IF g.rc = "ok" THEN [m |-> g.m, err |-> FALSE, val |-> g.val]
        ELSE IF ~IsNotFound(g.rc) THEN [m |-> g.m, err |-> TRUE, val |-> NoArg]
        ELSE IF sharedVpc THEN [m |-> g.m, err |-> TRUE, val |-> NoArg]
        ELSE Inserted(CloudInsert(g.m, "networks", NetworkName, NetworkSpec(g.m.status)))
  IN Looked(CloudGet(m0, "networks", NetworkName))

\* the mutant of createOrGetSubNetwork: an absent subnetwork is not created
createOrGetSubNetworkNoInsert(m0, i) ==
  LET Looked(g) == [m |-> g.m, err |-> g.rc \notin {"ok", "notfound"}]
  IN Looked(CloudGet(m0, "subnetworks", SubnetworkSpec(i).name))

createOrGetSubNetwork(m0, i) ==
  LET key == SubnetworkSpec(i).name
      Fetched(g2) == [m |-> g2.m, err |-> g2.rc # "ok"]
      Inserted(ins) ==
        IF ins.rc # "ok" THEN [m |-> ins.m, err |-> TRUE]
        ELSE Fetched(CloudGet(ins.m, "subnetworks", key))
      Looked(g) ==
        IF g.rc = "ok" THEN [m |-> g.m, err |-> FALSE]
        ELSE IF ~IsNotFound(g.rc) THEN [m |-> g.m, err |-> TRUE]
        ELSE Inserted(CloudInsert(g.m, "subnetworks", key,
                                  [network |-> SubnetworkSpec(i).network]))
  IN Looked(CloudGet(m0, "subnetworks", key))

\* the loop of Reconcile over scope.SubnetworkSpec(), from the i-th on
RECURSIVE ReconcileSubnets(_, _)
ReconcileSubnets(m0, i) ==
  LET Done(s) == IF s.err THEN s ELSE ReconcileSubnets(s.m, i + 1) IN
  IF i > Len(SubnetNames) THEN [m |-> m0, err |-> FALSE]
  ELSE Done(createOrGetSubNetwork(m0, i))

\* the mutant of createOrGetRouter: the router is inserted even when it exists
createOrGetRouterAlways(m0, network) ==
  LET key == NatRouterSpec.name
      spec == [description |-> ClusterTagKey(ClusterName),
               network |-> network.selfLink,
               nats |-> NatRouterSpec.nats]
      Fetched(g2) == [m |-> g2.m, err |-> g2.rc # "ok", val |-> g2.val]
      Inserted(ins) ==
        IF ins.rc # "ok" THEN [m |-> ins.m, err |-> TRUE, val |-> NoArg]
        ELSE Fetched(CloudGet(ins.m, "routers", key))
      Looked(g) ==
        IF g.rc \notin {"ok", "notfound"} THEN [m |-> g.m, err |-> TRUE, val |-> NoArg]
        ELSE Inserted(CloudInsert(g.m, "routers", key, spec))
  IN Looked(CloudGet(m0, "routers", key))

createOrGetRouter(m0, network) ==
  LET key == NatRouterSpec.name
      spec == [description |-> ClusterTagKey(ClusterName),
               network |-> network.selfLink,
               nats |-> NatRouterSpec.nats]
      Fetched(g2) == [m |-> g2.m, err |-> g2.rc # "ok", val |-> g2.val]
      Inserted(ins) ==
        IF ins.rc # "ok" THEN [m |-> ins.m, err |-> TRUE, val |-> NoArg]
        ELSE Fetched(CloudGet(ins.m, "routers", key))
      Looked(g) ==
        IF g.rc = "ok" THEN [m |-> g.m, err |-> FALSE, val |-> g.val]
        ELSE IF ~IsNotFound(g.rc) THEN [m |-> g.m, err |-> TRUE, val |-> NoArg]
        ELSE IF sharedVpc THEN [m |-> g.m, err |-> TRUE, val |-> NoArg]
        ELSE Inserted(CloudInsert(g.m, "routers", key, spec))
  IN Looked(CloudGet(m0, "routers", key))

\* the mutant of Reconcile: the router step without the ownership test
ReconcileUngated(m0) ==
  LET WithRouter(r, network) ==
        IF r.err THEN Return(r.m, "err")
        ELSE Return([r.m EXCEPT !.status.routerLink = r.val.selfLink,
                                !.status.netLink = network.selfLink], "ok")
      WithSubnets(s, network) ==
        IF s.err THEN Return(s.m, "err")
        ELSE WithRouter(createOrGetRouter(s.m, network), network)
      Recorded(m1, network) ==
        WithSubnets(IF ~network.res.auto THEN ReconcileSubnets(m1, 1)
                    ELSE [m |-> m1, err |-> FALSE],
                    network)
      WithNetwork(n) ==
        IF n.err THEN Return(n.m, "err")
        ELSE Recorded([n.m EXCEPT !.status.netLink = n.val.selfLink], n.val)
  IN WithNetwork(createOrGetNetwork(m0))

\* the mutant of Reconcile: a failed router step removes the network again
ReconcileWithRollback(m0) ==
  LET WithRouter(r, network) ==
        IF r.err THEN Return(CloudDelete(r.m, "networks", NetworkName).m, "err")
        ELSE Return([r.m EXCEPT !.status.routerLink = r.val.selfLink,
                                !.status.netLink = network.selfLink], "ok")
      WithSubnets(s, network) ==
        IF s.err THEN Return(s.m, "err")
        ELSE IF network.res.description = ClusterTagKey(ClusterName)
          THEN WithRouter(createOrGetRouter(s.m, network), network)
        ELSE Return([s.m EXCEPT !.status.netLink = network.selfLink], "ok")
      Recorded(m1, network) ==
        WithSubnets(IF ~network.res.auto THEN ReconcileSubnets(m1, 1)
                    ELSE [m |-> m1, err |-> FALSE],
                    network)
      WithNetwork(n) ==
        IF n.err THEN Return(n.m, "err")
        ELSE Recorded([n.m EXCEPT !.status.netLink = n.val.selfLink], n.val)
  IN WithNetwork(createOrGetNetwork(m0))

\* Service.Reconcile
Reconcile(m0) ==
  LET WithRouter(r, network) ==
        IF r.err THEN Return(r.m, "err")
        ELSE Return([r.m EXCEPT !.status.routerLink = r.val.selfLink,
                                !.status.netLink = network.selfLink], "ok")
      WithSubnets(s, network) ==
        IF s.err THEN Return(s.m, "err")
        ELSE IF network.res.description = ClusterTagKey(ClusterName)
          THEN WithRouter(createOrGetRouter(s.m, network), network)
        ELSE Return([s.m EXCEPT !.status.netLink = network.selfLink], "ok")
      Recorded(m1, network) ==
        WithSubnets(IF ~network.res.auto THEN ReconcileSubnets(m1, 1)
                    ELSE [m |-> m1, err |-> FALSE],
                    network)
      WithNetwork(n) ==
        IF n.err THEN Return(n.m, "err")
        ELSE Recorded([n.m EXCEPT !.status.netLink = n.val.selfLink], n.val)
  IN WithNetwork(createOrGetNetwork(m0))

\* the mutant of DeleteSubnets: a failed subnetwork Delete does not end the loop
RECURSIVE DeleteSubnetsKeepGoing(_, _)
DeleteSubnetsKeepGoing(m0, i) ==
  LET key == SubnetworkSpec(i).name
      Deleted(d) == DeleteSubnetsKeepGoing(d.m, i + 1)
      Looked(g) ==
        IF g.rc \notin {"ok", "notfound"} THEN [m |-> g.m, err |-> TRUE]
        ELSE IF g.rc = "ok" THEN Deleted(CloudDelete(g.m, "subnetworks", key))
        ELSE DeleteSubnetsKeepGoing(g.m, i + 1)
  IN
  IF i > Len(SubnetNames) THEN [m |-> m0, err |-> FALSE]
  ELSE Looked(CloudGet(m0, "subnetworks", key))

\* the subnetwork loop of Service.Delete, from the i-th declared subnet on
RECURSIVE DeleteSubnets(_, _)
DeleteSubnets(m0, i) ==
  LET key == SubnetworkSpec(i).name
      Deleted(d) ==
        IF d.rc # "ok" THEN [m |-> d.m, err |-> TRUE]
        ELSE DeleteSubnets(d.m, i + 1)
      Looked(g) ==
        IF g.rc \notin {"ok", "notfound"} THEN [m |-> g.m, err |-> TRUE]
        ELSE IF g.rc = "ok" THEN Deleted(CloudDelete(g.m, "subnetworks", key))
        ELSE DeleteSubnets(g.m, i + 1)
  IN
  IF i > Len(SubnetNames) THEN [m |-> m0, err |-> FALSE]
  ELSE Looked(CloudGet(m0, "subnetworks", key))

\* the route loop of Service.Delete over the listed routes, from the i-th on
RECURSIVE DeleteRoutes(_, _, _)
DeleteRoutes(m0, routeList, i) ==
  LET Deleted(d) ==
        IF d.rc # "ok" THEN [m |-> d.m, err |-> TRUE]
        ELSE DeleteRoutes(d.m, routeList, i + 1)
  IN
  IF i > Len(routeList) THEN [m |-> m0, err |-> FALSE]
  ELSE IF HasSuffix(routeList[i].res.network, NetworkName)
    THEN Deleted(CloudDelete(m0, "routes", routeList[i].name))
  ELSE DeleteRoutes(m0, routeList, i + 1)

\* what List returns: the listed keys as resources
Listed(m, kind, keys) == [j \in 1..Len(keys) |-> View(m.cloud, kind, keys[j])]

\* Service.Delete, the router step: the router is deleted only under its own tag
DeleteRouter(m0) ==
  LET routerKey == NatRouterSpec.name
      Deleted(rd) == [m |-> rd.m, err |-> rd.rc \notin {"ok", "notfound"}]
      Looked(rg) ==
        IF rg.rc \notin {"ok", "notfound"} THEN [m |-> rg.m, err |-> TRUE]
        ELSE IF rg.rc = "ok" /\ rg.val.res.description = ClusterTagKey(ClusterName)
          THEN Deleted(CloudDelete(rg.m, "routers", routerKey))
        ELSE [m |-> rg.m, err |-> FALSE]
  IN Looked(CloudGet(m0, "routers", routerKey))

\* Service.Delete, the subnetwork step: only for a custom-mode network
DeleteCustomSubnets(m0, network) ==
  IF ~network.res.auto THEN DeleteSubnets(m0, 1) ELSE [m |-> m0, err |-> FALSE]

\* Service.Delete, the route step: list by description, delete by network suffix
DeleteNodeRoutes(m0) ==
  LET fl == [description |-> k8sNodeRouteTag, prefix |-> Nil]
      WithList(l) ==
        IF l.rc # "ok" THEN [m |-> l.m, err |-> TRUE]
        ELSE DeleteRoutes(l.m, Listed(l.m, "routes", l.val), 1)
  IN WithList(CloudList(m0, "routes", RouteOrder, fl))

\* the mutant of DeleteTheNetwork: the status is cleared, the network is left
DeleteTheNetworkSkipped(m0) ==
  Return([m0 EXCEPT !.status.routerLink = Nil, !.status.netLink = Nil], "ok")

\* Service.Delete, the last step: the network, then the status is cleared
DeleteTheNetwork(m0) ==
  LET Deleted(nd) ==
        IF nd.rc # "ok" THEN Return(nd.m, "err")
        ELSE Return([nd.m EXCEPT !.status.routerLink = Nil, !.status.netLink = Nil], "ok")
  IN Deleted(CloudDelete(m0, "networks", NetworkName))

\* the mutant of DeleteOwned: the subnetworks before the router
DeleteOwnedSubnetsFirst(m0, network) ==
  LET AfterRoutes(d) == IF d.err THEN Return(d.m, "err") ELSE DeleteTheNetwork(d.m)
      AfterRouter(r) == IF r.err THEN Return(r.m, "err") ELSE AfterRoutes(DeleteNodeRoutes(r.m))
      AfterSubnets(s) == IF s.err THEN Return(s.m, "err") ELSE AfterRouter(DeleteRouter(s.m))
  IN AfterSubnets(DeleteCustomSubnets(m0, network))

\* the mutant of DeleteOwned: the routes before the subnetworks
DeleteOwnedRoutesFirst(m0, network) ==
  LET AfterSubnets(s) == IF s.err THEN Return(s.m, "err") ELSE DeleteTheNetwork(s.m)
      AfterRoutes(d) ==
        IF d.err THEN Return(d.m, "err") ELSE AfterSubnets(DeleteCustomSubnets(d.m, network))
      AfterRouter(r) == IF r.err THEN Return(r.m, "err") ELSE AfterRoutes(DeleteNodeRoutes(r.m))
  IN AfterRouter(DeleteRouter(m0))

\* the tail of Service.Delete once the network is known to be owned: router,
\* subnetworks, routes, network
DeleteOwned(m0, network) ==
  LET AfterRoutes(d) == IF d.err THEN Return(d.m, "err") ELSE DeleteTheNetwork(d.m)
      AfterSubnets(s) == IF s.err THEN Return(s.m, "err") ELSE AfterRoutes(DeleteNodeRoutes(s.m))
      AfterRouter(r) ==
        IF r.err THEN Return(r.m, "err") ELSE AfterSubnets(DeleteCustomSubnets(r.m, network))
  IN AfterRouter(DeleteRouter(m0))

\* the mutant of Delete: no ownership gate
DeleteUngated(m0) ==
  LET Looked(g) ==
        IF g.rc # "ok" THEN Return(g.m, IF IsNotFound(g.rc) THEN "ok" ELSE "err")
        ELSE DeleteOwned(g.m, g.val)
  IN
  IF sharedVpc
    THEN Return([m0 EXCEPT !.status.routerLink = Nil, !.status.netLink = Nil], "ok")
  ELSE Looked(CloudGet(m0, "networks", NetworkName))

\* Service.Delete
Delete(m0) ==
  LET Looked(g) ==
        IF g.rc # "ok" THEN Return(g.m, IF IsNotFound(g.rc) THEN "ok" ELSE "err")
        ELSE IF g.val.res.description # ClusterTagKey(ClusterName) THEN Return(g.m, "ok")
        ELSE DeleteOwned(g.m, g.val)
  IN
  IF sharedVpc
    THEN Return([m0 EXCEPT !.status.routerLink = Nil, !.status.netLink = Nil], "ok")
  ELSE Looked(CloudGet(m0, "networks", NetworkName))

----------------------------------------------------------------------------
(* The legacy compute.Service: network (ReconcileNetwork, DeleteNetwork) *)

\* checkOrWaitForDeleteOp(op, err), d being the answer of the Delete request:
\* NotFound is success and nothing is waited for, any other failure of the
\* request is returned, and an accepted request is waited for
checkOrWaitForDeleteOp(d) ==
  IF IsNotFound(d.rc) THEN [m |-> d.m, rc |-> "ok"]
  ELSE IF d.rc # "ok" THEN [m |-> d.m, rc |-> d.rc]
  ELSE ForComputeOperation(d.m, d.op)

\* Service.getNetworkSpec
getNetworkSpec(st) ==
  [description |-> ClusterTagKey(ClusterName),
   auto |-> IF st.specAuto = "unset" THEN TRUE ELSE st.specAuto = "true"]

\* Service.getRouterNatSpec
getRouterNatSpec == getRouterNatName(NetworkName)

\* Service.getRouterSpec(network)
getRouterSpec(network) ==
  [name |-> getRouterName(network.name),
   description |-> Nil,
   network |-> network.selfLink,
   nats |-> <<getRouterNatSpec>>]

\* Service.getSubnetworkSpec(subnet): *subnet.EnableFlowLogs is read without a
\* nil test, and panics for a declared subnet that leaves the field unset
getSubnetworkSpec(m, i) ==
  IF i \notin m.status.specFlowLogs
    THEN [panic |-> TRUE, name |-> Nil, network |-> Nil]
  ELSE [panic |-> FALSE, name |-> SubnetNames[i], network |-> m.status.netLink]

\* Service.getSubnetNameFromUrl
getSubnetNameFromUrl(subnetUrl) == LastSplit(subnetUrl)

\* Service.createCloudNat(network)
createCloudNat(m0, network) ==
  LET key == getRouterName(NetworkName)
      router == getRouterSpec(network)
      Patched(p, got) ==
        IF p.rc # "ok" THEN [m |-> p.m, err |-> TRUE]
        ELSE [m |-> [p.m EXCEPT !.status.routerLink = got.val.selfLink], err |-> FALSE]
      PatchSent(p, got) ==
        IF p.rc # "ok" THEN [m |-> p.m, err |-> TRUE]
        ELSE Patched(ForComputeOperation(p.m, p.op), got)
      Got(got) ==
        IF got.rc # "ok" THEN [m |-> got.m, err |-> TRUE]
        ELSE IF Len(got.val.res.nats) = 0
          THEN PatchSent(PatchDo(got.m, "routers", got.val.name,
                                 [got.val.res EXCEPT !.nats = <<getRouterNatSpec>>]),
                         got)
        ELSE [m |-> [got.m EXCEPT !.status.routerLink = got.val.selfLink], err |-> FALSE]
      Waited(w) ==
        IF w.rc # "ok" THEN Got([m |-> w.m, rc |-> "err", val |-> NoArg])
        ELSE Got(CloudGet(w.m, "routers", router.name))
      Inserted(ins) ==
        IF ins.rc # "ok" THEN Got([m |-> ins.m, rc |-> "err", val |-> NoArg])
        ELSE Waited(ForComputeOperation(ins.m, ins.op))
      Looked(g) ==
        IF g.rc = "ok" THEN Got(g)
        ELSE IF ~IsNotFound(g.rc) THEN Got([m |-> g.m, rc |-> "err", val |-> NoArg])
        ELSE Inserted(InsertDo(g.m, "routers", router.name,
                                  [description |-> router.description,
                                   network |-> router.network,
                                   nats |-> router.nats]))
  IN Looked(CloudGet(m0, "routers", key))

\* Service.createSubnetworks, from the i-th declared subnet on
RECURSIVE createSubnetworks(_, _)
createSubnetworks(m0, i) ==
  LET key == SubnetNames[i]
      Fetched(g2) ==
        IF g2.rc # "ok" THEN [m |-> g2.m, err |-> TRUE, panic |-> FALSE]
        ELSE createSubnetworks(g2.m, i + 1)
      Waited(w) ==
        IF w.rc # "ok" THEN [m |-> w.m, err |-> TRUE, panic |-> FALSE]
        ELSE Fetched(CloudGet(w.m, "subnetworks", key))
      Inserted(ins) ==
        IF ins.rc # "ok" THEN [m |-> ins.m, err |-> TRUE, panic |-> FALSE]
        ELSE Waited(ForComputeOperation(ins.m, ins.op))
      WithSpec(m1, subnetSpec) ==
        IF subnetSpec.panic THEN [m |-> m1, err |-> TRUE, panic |-> TRUE]
        ELSE Inserted(InsertDo(m1, "subnetworks", subnetSpec.name,
                                  [network |-> subnetSpec.network]))
      Looked(g) ==
        IF g.rc = "ok" THEN createSubnetworks(g.m, i + 1)
        ELSE IF ~IsNotFound(g.rc) THEN [m |-> g.m, err |-> TRUE, panic |-> FALSE]
        ELSE WithSpec(g.m, getSubnetworkSpec(g.m, i))
  IN
  IF i > Len(SubnetNames) THEN [m |-> m0, err |-> FALSE, panic |-> FALSE]
  ELSE Looked(CloudGet(m0, "subnetworks", key))

\* Service.ReconcileNetwork
ReconcileNetwork(m0) ==
  LET WithSubnets(s) ==
        Return(s.m, IF s.panic THEN "panic" ELSE IF s.err THEN "err" ELSE "ok")
      Recorded(m1, network) ==
        WithSubnets(IF ~network.res.auto THEN createSubnetworks(m1, 1)
                    ELSE [m |-> m1, err |-> FALSE, panic |-> FALSE])
      WithNat(nat, network) ==
        IF nat.err THEN Return(nat.m, "err")
        ELSE Recorded([nat.m EXCEPT !.status.specName = network.name,
                                    !.status.specAuto = IF network.res.auto THEN "true" ELSE "false",
                                    !.status.netLink = network.selfLink],
                      network)
      Got(got, autoCreateCloudNat) ==
        IF got.rc # "ok" THEN Return(got.m, "err")
        ELSE WithNat(IF autoCreateCloudNat THEN createCloudNat(got.m, got.val)
                     ELSE [m |-> got.m, err |-> FALSE],
                     got.val)
      Waited(w) ==
        IF w.rc # "ok" THEN Return(w.m, "err")
        ELSE Got(CloudGet(w.m, "networks", NetworkName), TRUE)
      Inserted(ins) ==
        IF ins.rc # "ok" THEN Return(ins.m, "err")
        ELSE Waited(ForComputeOperation(ins.m, ins.op))
      Looked(g) ==
        IF g.rc = "ok" THEN Got(g, FALSE)
        ELSE IF ~IsNotFound(g.rc) THEN Return(g.m, "err")
        ELSE Inserted(InsertDo(g.m, "networks", NetworkName, getNetworkSpec(g.m.status)))
  IN Looked(CloudGet(m0, "networks", NetworkName))

\* Service.deleteSubnetworks(subnetworks), from the i-th URL on
RECURSIVE deleteSubnetworks(_, _, _)
deleteSubnetworks(m0, subnetworks, i) ==
  LET Waited(w) ==
        IF w.rc # "ok" THEN [m |-> w.m, err |-> TRUE]
        ELSE deleteSubnetworks(w.m, subnetworks, i + 1)
      Deleted(d) ==
        IF d.rc # "ok" THEN [m |-> d.m, err |-> TRUE]
        ELSE Waited(ForComputeOperation(d.m, d.op))
      Named(subnetName) ==
        IF subnetName # Nil THEN Deleted(DeleteDo(m0, "subnetworks", subnetName))
        ELSE deleteSubnetworks(m0, subnetworks, i + 1)
  IN
  IF i > Len(subnetworks) THEN [m |-> m0, err |-> FALSE]
  ELSE Named(getSubnetNameFromUrl(subnetworks[i]))

\* the route loop of DeleteNetwork, from the i-th listed route on
RECURSIVE deleteRoutes(_, _, _, _)
deleteRoutes(m0, routeList, network, i) ==
  LET Deleted(opErr) ==
        IF opErr.rc # "ok" THEN [m |-> opErr.m, err |-> TRUE]
        ELSE deleteRoutes(opErr.m, routeList, network, i + 1)
  IN
  IF i > Len(routeList) THEN [m |-> m0, err |-> FALSE]
  ELSE IF HasSuffix(routeList[i].res.network, network.name)
    THEN Deleted(checkOrWaitForDeleteOp(DeleteDo(m0, "routes", routeList[i].name)))
  ELSE deleteRoutes(m0, routeList, network, i + 1)

\* the tail of DeleteNetwork once the network is known to be owned: router,
\* routes, subnetworks, network
deleteOwnedNetwork(m0, network) ==
  LET filterString == [description |-> k8sNodeRouteTag, prefix |-> ClusterName \o <<"-">>]
      NetworkDeleted(nd) ==
        IF nd.rc # "ok" THEN Return(nd.m, "err")
        ELSE Return([nd.m EXCEPT !.status.specName = Nil], "ok")
      SubnetsDeleted(s) ==
        IF s.err THEN Return(s.m, "err")
        ELSE NetworkDeleted(checkOrWaitForDeleteOp(DeleteDo(s.m, "networks", network.name)))
      RoutesDeleted(d) ==
        IF d.err THEN Return(d.m, "err")
        ELSE SubnetsDeleted(IF ~network.res.auto
                              THEN deleteSubnetworks(d.m, network.subnetworks, 1)
                            ELSE [m |-> d.m, err |-> FALSE])
      RoutesListed(l) ==
        IF l.rc # "ok" THEN Return(l.m, "err")
        ELSE RoutesDeleted(deleteRoutes(l.m, Listed(l.m, "routes", l.val), network, 1))
      RouterDeleted(rd) ==
        IF rd.rc # "ok" THEN Return(rd.m, "err")
        ELSE RoutesListed(CloudList(rd.m, "routes", RouteOrder, filterString))
      RouterLooked(rg) ==
        IF rg.rc \notin {"ok", "notfound"} THEN Return(rg.m, "err")
        ELSE IF rg.rc = "ok"
          THEN RouterDeleted(checkOrWaitForDeleteOp(DeleteDo(rg.m, "routers", rg.val.name)))
        ELSE RouterDeleted([m |-> rg.m, rc |-> "ok"])
  IN RouterLooked(CloudGet(m0, "routers", getRouterName(NetworkName)))

\* the mutant of DeleteNetwork: an absent network is reported as a failure
DeleteNetworkNotFoundFails(m0) ==
  LET Looked(g) ==
        IF IsNotFound(g.rc) THEN Return(g.m, "err")
        ELSE IF g.rc # "ok" THEN Return(g.m, "panic")
        ELSE IF g.val.res.description # ClusterTagKey(ClusterName) THEN Return(g.m, "ok")
        ELSE deleteOwnedNetwork(g.m, g.val)
  IN Looked(CloudGet(m0, "networks", NetworkName))

\* Service.DeleteNetwork: a failed Get other than NotFound leaves network nil,
\* and reading network.Description panics
DeleteNetwork(m0) ==
  LET Looked(g) ==
        IF IsNotFound(g.rc) THEN Return(g.m, "ok")
        ELSE IF g.rc # "ok" THEN Return(g.m, "panic")
        ELSE IF g.val.res.description # ClusterTagKey(ClusterName) THEN Return(g.m, "ok")
        ELSE deleteOwnedNetwork(g.m, g.val)
  IN Looked(CloudGet(m0, "networks", NetworkName))

----------------------------------------------------------------------------
(* The legacy compute.Service: firewall rules (firewalls.go) *)

APIServerRoleTagValue == <<"apiserver">>

HealthCheckRule == <<"allow-">> \o ClusterName \o <<"-">> \o APIServerRoleTagValue \o <<"-healthchecks">>
ClusterRule == <<"allow-">> \o ClusterName \o <<"-">> \o APIServerRoleTagValue \o <<"-cluster">>

ControlPlaneTag == ClusterName \o <<"-control-plane">>
NodeTag == ClusterName \o <<"-node">>

\* Service.getFirewallSpecs; Network is scope.NetworkSelfLink(), the recorded self-link
getFirewallSpecs(st) ==
  << [name |-> HealthCheckRule, network |-> st.netLink, description |-> Nil,
      targetTags |-> <<ControlPlaneTag>>],
     [name |-> ClusterRule, network |-> st.netLink, description |-> Nil,
      targetTags |-> <<ControlPlaneTag, NodeTag>>] >>

\* the firewall rules of the project, in the order the provider lists them
FirewallOrder ==
  << HealthCheckRule, ClusterRule, <<"fw-tagged">>, <<"fw-elsewhere">>, <<"fw-untagged">>,
     <<"fw-twice">>, <<"fw-noref">> >>

\* the mutant of ReconcileFirewallsFrom: the fetched rule is not recorded
RECURSIVE ReconcileFirewallsNoRecord(_, _)
ReconcileFirewallsNoRecord(m0, i) ==
  LET firewallSpec == getFirewallSpecs(m0.status)[i]
      Got(got) ==
        IF got.rc # "ok" THEN Return(got.m, "err")
        ELSE ReconcileFirewallsNoRecord(got.m, i + 1)
      Waited(w) ==
        IF w.rc # "ok" THEN Return(w.m, "err")
        ELSE Got(CloudGet(w.m, "firewalls", firewallSpec.name))
      Inserted(ins) ==
        IF ins.rc # "ok" THEN Return(ins.m, "err")
        ELSE Waited(ForComputeOperation(ins.m, ins.op))
      Looked(g) ==
        IF g.rc = "ok" THEN Got(g)
        ELSE IF ~IsNotFound(g.rc) THEN Return(g.m, "err")
        ELSE Inserted(InsertDo(g.m, "firewalls", firewallSpec.name,
                               [network |-> firewallSpec.network,
                                description |-> firewallSpec.description,
                                targetTags |-> firewallSpec.targetTags]))
  IN
  IF i > Len(getFirewallSpecs(m0.status)) THEN Return(m0, "ok")
  ELSE Looked(CloudGet(m0, "firewalls", firewallSpec.name))

\* the mutant of ReconcileFirewallsFrom: the mapping is started afresh, so the
\* entries under other names are lost
RECURSIVE ReconcileFirewallsResets(_, _)
ReconcileFirewallsResets(m0, i) ==
  LET firewallSpec == getFirewallSpecs(m0.status)[i]
      Got(got) ==
        IF got.rc # "ok" THEN Return(got.m, "err")
        ELSE ReconcileFirewallsResets(
               [got.m EXCEPT !.status.fwRules =
                  [n \in (IF i = 1 THEN {} ELSE DOMAIN @) \cup {got.val.name} |->
                     IF n = got.val.name THEN got.val.selfLink ELSE @[n]]],
               i + 1)
      Waited(w) ==
        IF w.rc # "ok" THEN Return(w.m, "err")
        ELSE Got(CloudGet(w.m, "firewalls", firewallSpec.name))
      Inserted(ins) ==
        IF ins.rc # "ok" THEN Return(ins.m, "err")
        ELSE Waited(ForComputeOperation(ins.m, ins.op))
      Looked(g) ==
        IF g.rc = "ok" THEN Got(g)
        ELSE IF ~IsNotFound(g.rc) THEN Return(g.m, "err")
        ELSE Inserted(InsertDo(g.m, "firewalls", firewallSpec.name,
                               [network |-> firewallSpec.network,
                                description |-> firewallSpec.description,
                                targetTags |-> firewallSpec.targetTags]))
  IN
  IF i > Len(getFirewallSpecs(m0.status)) THEN Return(m0, "ok")
  ELSE Looked(CloudGet(m0, "firewalls", firewallSpec.name))

\* Service.ReconcileFirewalls, from the i-th declared rule on
RECURSIVE ReconcileFirewallsFrom(_, _)
ReconcileFirewallsFrom(m0, i) ==
  LET firewallSpec == getFirewallSpecs(m0.status)[i]
      Got(got) ==
        IF got.rc # "ok" THEN Return(got.m, "err")
        ELSE ReconcileFirewallsFrom(
               [got.m EXCEPT !.status.fwRules =
                  [n \in (DOMAIN @) \cup {got.val.name} |->
                     IF n = got.val.name THEN got.val.selfLink ELSE @[n]]],
               i + 1)
      Waited(w) ==
        IF w.rc # "ok" THEN Return(w.m, "err")
        ELSE Got(CloudGet(w.m, "firewalls", firewallSpec.name))
      Inserted(ins) ==
        IF ins.rc # "ok" THEN Return(ins.m, "err")
        ELSE Waited(ForComputeOperation(ins.m, ins.op))
      Looked(g) ==
        IF g.rc = "ok" THEN Got(g)
        ELSE IF ~IsNotFound(g.rc) THEN Return(g.m, "err")
        ELSE Inserted(InsertDo(g.m, "firewalls", firewallSpec.name,
                               [network |-> firewallSpec.network,
                                description |-> firewallSpec.description,
                                targetTags |-> firewallSpec.targetTags]))
  IN
  IF i > Len(getFirewallSpecs(m0.status)) THEN Return(m0, "ok")
  ELSE Looked(CloudGet(m0, "firewalls", firewallSpec.name))

ReconcileFirewalls(m0) == ReconcileFirewallsFrom(m0, 1)

\* the mutant of DeleteRecorded: the name is removed whatever the Delete answered
RECURSIVE DeleteRecordedEager(_, _, _)
DeleteRecordedEager(m0, ord, i) ==
  LET Forgot(m1) == [m1 EXCEPT !.status.fwRules = [n \in (DOMAIN @) \ {ord[i]} |-> @[n]]]
      Deleted(opErr) ==
        IF opErr.rc # "ok" THEN [m |-> Forgot(opErr.m), err |-> TRUE]
        ELSE DeleteRecordedEager(Forgot(opErr.m), ord, i + 1)
  IN
  IF i > Len(ord) THEN [m |-> m0, err |-> FALSE]
  ELSE Deleted(checkOrWaitForDeleteOp(DeleteDo(m0, "firewalls", ord[i])))

\* the first loop of DeleteFirewalls, over the recorded names in the order the
\* map iteration yields them, from the i-th on
RECURSIVE DeleteRecorded(_, _, _)
DeleteRecorded(m0, ord, i) ==
  LET Deleted(opErr) ==
        IF opErr.rc # "ok" THEN [m |-> opErr.m, err |-> TRUE]
        ELSE DeleteRecorded(
               [opErr.m EXCEPT !.status.fwRules = [n \in (DOMAIN @) \ {ord[i]} |-> @[n]]],
               ord, i + 1)
  IN
  IF i > Len(ord) THEN [m |-> m0, err |-> FALSE]
  ELSE Deleted(checkOrWaitForDeleteOp(DeleteDo(m0, "firewalls", ord[i])))

\* the loop over the target tags of one listed firewall, from the j-th tag on
RECURSIVE SweepTags(_, _, _)
SweepTags(m0, firewall, j) ==
  LET Deleted(opErr) ==
        IF opErr.rc # "ok" THEN [m |-> opErr.m, err |-> TRUE]
        ELSE SweepTags(opErr.m, firewall, j + 1)
  IN
  IF j > Len(firewall.res.targetTags) THEN [m |-> m0, err |-> FALSE]
  ELSE IF firewall.res.targetTags[j] = ClusterName
    THEN Deleted(checkOrWaitForDeleteOp(DeleteDo(m0, "firewalls", firewall.name)))
  ELSE SweepTags(m0, firewall, j + 1)

\* the mutant of Sweep: the rule's network is not compared
RECURSIVE SweepAnyNetwork(_, _, _)
SweepAnyNetwork(m0, items, i) ==
  LET Swept(t) == IF t.err THEN t ELSE SweepAnyNetwork(t.m, items, i + 1)
      Named(nn) ==
        IF nn.err THEN [m |-> m0, err |-> TRUE]
        ELSE Swept(SweepTags(m0, items[i], 1))
  IN
  IF i > Len(items) THEN [m |-> m0, err |-> FALSE]
  ELSE Named(getFirewallNetworkName(items[i].res.network))

\* the sweep of DeleteFirewalls over the listed rules, from the i-th on
RECURSIVE Sweep(_, _, _)
Sweep(m0, items, i) ==
  LET Swept(t) == IF t.err THEN t ELSE Sweep(t.m, items, i + 1)
      Named(nn) ==
        IF nn.err THEN [m |-> m0, err |-> TRUE]
        ELSE IF nn.name = NetworkName THEN Swept(SweepTags(m0, items[i], 1))
        ELSE Sweep(m0, items, i + 1)
  IN
  IF i > Len(items) THEN [m |-> m0, err |-> FALSE]
  ELSE Named(getFirewallNetworkName(items[i].res.network))

\* Service.DeleteFirewalls; ord is the order in which the map is iterated
DeleteFirewalls(m0, ord) ==
  LET Swept(sw) == Return(sw.m, IF sw.err THEN "err" ELSE "ok")
      WithList(l) ==
        IF l.rc # "ok" THEN Return(l.m, "err")
        ELSE Swept(Sweep(l.m, Listed(l.m, "firewalls", l.val), 1))
      Recorded(r) ==
        IF r.err THEN Return(r.m, "err")
        ELSE WithList(CloudList(r.m, "firewalls", FirewallOrder, NoFilter))
  IN Recorded(DeleteRecorded(m0, ord, 1))

----------------------------------------------------------------------------
(* The legacy compute.Service: bastion host *)

Region == <<"region">>

getDefaultBastionName == ClusterName \o <<"-bastion">>
getDefaultBastionZone == Region \o <<"-a">>

\* Service.getDefaultBastion
getDefaultBastion(st) ==
  [name |-> getDefaultBastionName,
   zone |-> getDefaultBastionZone,
   network |-> st.netLink,
   description |-> Nil,
   tags |-> <<ClusterName \o <<"-bastion">> >>]

\* Service.describeBastionInstance
describeBastionInstance(m0) == CloudGet(m0, "instances", getDefaultBastionName)

\* Service.runInstance: insert, wait for the operation, fetch the instance
runInstance(m0, spec) ==
  LET Waited(w) ==
        IF w.rc # "ok" THEN [m |-> w.m, rc |-> "err", val |-> NoArg]
        ELSE CloudGet(w.m, "instances", spec.name)
      Inserted(ins) ==
        IF ins.rc # "ok" THEN [m |-> ins.m, rc |-> "err", val |-> NoArg]
        ELSE Waited(ForComputeOperation(ins.m, ins.op))
  IN Inserted(InsertDo(m0, "instances", spec.name,
                       [network |-> spec.network, description |-> spec.description,
                        tags |-> spec.tags]))

\* Service.ReconcileBastion: a failed network Get other than NotFound leaves
\* network nil, and reading network.Description panics
ReconcileBastion(m0) ==
  LET Got(got) ==
        IF got.rc # "ok" THEN Return(got.m, "err")
        ELSE Return([got.m EXCEPT !.status.bastionLink = got.val.selfLink,
                                  !.status.bastionStatus = got.val.status], "ok")
      Described(d) ==
        IF IsNotFound(d.rc) THEN Got(runInstance(d.m, getDefaultBastion(d.m.status)))
        ELSE Got(d)
      Looked(g) ==
        IF IsNotFound(g.rc) THEN Return(g.m, "ok")
        ELSE IF g.rc # "ok" THEN Return(g.m, "panic")
        ELSE IF g.val.res.description # ClusterTagKey(ClusterName) THEN Return(g.m, "ok")
        ELSE Described(describeBastionInstance(g.m))
  IN Looked(CloudGet(m0, "networks", NetworkName))

\* the mutant of DeleteBastion: the network's description is not compared
DeleteBastionUngated(m0) ==
  LET Waited(w) == Return(w.m, IF w.rc # "ok" THEN "err" ELSE "ok")
      Deleted(del) ==
        IF del.rc # "ok" THEN Return(del.m, "err")
        ELSE Waited(ForComputeOperation(del.m, del.op))
      Described(d) ==
        IF IsNotFound(d.rc) THEN Return(d.m, "ok")
        ELSE IF d.rc # "ok" THEN Return(d.m, "err")
        ELSE Deleted(DeleteDo(d.m, "instances", d.val.name))
      Looked(g) ==
        IF IsNotFound(g.rc) THEN Return(g.m, "ok")
        ELSE IF g.rc # "ok" THEN Return(g.m, "panic")
        ELSE Described(describeBastionInstance(g.m))
  IN Looked(CloudGet(m0, "networks", NetworkName))

\* Service.DeleteBastion
DeleteBastion(m0) ==
  LET Waited(w) == Return(w.m, IF w.rc # "ok" THEN "err" ELSE "ok")
      Deleted(del) ==
        IF del.rc # "ok" THEN Return(del.m, "err")
        ELSE Waited(ForComputeOperation(del.m, del.op))
      Described(d) ==
        IF IsNotFound(d.rc) THEN Return(d.m, "ok")
        ELSE IF d.rc # "ok" THEN Return(d.m, "err")
        ELSE Deleted(DeleteDo(d.m, "instances", d.val.name))
      Looked(g) ==
        IF IsNotFound(g.rc) THEN Return(g.m, "ok")
        ELSE IF g.rc # "ok" THEN Return(g.m, "panic")
        ELSE IF g.val.res.description # ClusterTagKey(ClusterName) THEN Return(g.m, "ok")
        ELSE Described(describeBastionInstance(g.m))
  IN Looked(CloudGet(m0, "networks", NetworkName))

----------------------------------------------------------------------------
(* States the provider and the status can be in when an invocation starts *)

Range(f) == {f[x] : x \in DOMAIN f}

NoStatus ==
  [netLink |-> Nil, routerLink |-> Nil, fwRules |-> <<>>, bastionLink |-> Nil,
   bastionStatus |-> Nil, specName |-> Nil, specAuto |-> "unset",
   specFlowLogs |-> 1..NumSubnets]

EmptyCloud == [k \in Kinds |-> <<>>]

RouterLink == SelfLink("routers", getRouterName(NetworkName))

NetworkStates ==
  {<<>>} \cup
  {[k \in {NetworkName} |-> [description |-> d, auto |-> a]] :
     d \in {OwnTag, ForeignTag}, a \in BOOLEAN}

\* while the network is absent a declared subnet's name may be taken by a
\* subnetwork of another network
SubnetworkStates(nets) ==
  IF nets = <<>>
    THEN {<<>>, [k \in {SubnetNames[1]} |-> [network |-> SelfLink("networks", <<"other">>)]]}
  ELSE IF nets[NetworkName].auto THEN {<<>>}
  ELSE {[k \in S |-> [network |-> NetLink]] : S \in SUBSET Range(SubnetNames)}

\* no router; or, while the network is absent, a router of that name left on
\* another network, with or without a NAT config; or a router on the network,
\* tagged by this cluster, by another, or not at all, or tagged by this cluster
\* and without a NAT config
RouterStates(nets) ==
  IF nets = <<>>
    THEN {<<>>} \cup
         {[k \in {getRouterName(NetworkName)} |->
             [description |-> ForeignTag, network |-> SelfLink("networks", <<"other">>), nats |-> n]] :
            n \in {<<>>, <<getRouterNatName(NetworkName)>>}}
  ELSE {<<>>} \cup
       {[k \in {getRouterName(NetworkName)} |->
           [description |-> d, network |-> NetLink, nats |-> <<getRouterNatName(NetworkName)>>]] :
          d \in {OwnTag, ForeignTag, Nil}} \cup
       {[k \in {getRouterName(NetworkName)} |->
           [description |-> OwnTag, network |-> NetLink, nats |-> <<>>]]}

\* a node route of this cluster on the network, one of this cluster on a network
\* whose name ends with the network's name, one of another cluster on the network
RouteResource(k) ==
  [description |-> k8sNodeRouteTag,
   network |-> IF k = RouteOrder[2] THEN SelfLink("networks", <<"x">> \o NetworkName) ELSE NetLink]

RouteStates(nets) ==
  IF nets = <<>> THEN {<<>>}
  ELSE {<<>>, [k \in Range(RouteOrder) |-> RouteResource(k)]}

\* the rules another party may have left in the project
FirewallResource(k) ==
  IF k = HealthCheckRule THEN [network |-> NetLink, description |-> Nil, targetTags |-> <<ControlPlaneTag>>]
  ELSE IF k = ClusterRule THEN [network |-> NetLink, description |-> Nil, targetTags |-> <<ControlPlaneTag, NodeTag>>]
  ELSE IF k = <<"fw-tagged">> THEN [network |-> NetLink, description |-> Nil, targetTags |-> <<ClusterName>>]
  ELSE IF k = <<"fw-elsewhere">>
    THEN [network |-> SelfLink("networks", <<"other">>), description |-> Nil, targetTags |-> <<ClusterName>>]
  ELSE IF k = <<"fw-untagged">> THEN [network |-> NetLink, description |-> Nil, targetTags |-> <<NodeTag>>]
  ELSE IF k = <<"fw-twice">> THEN [network |-> NetLink, description |-> Nil, targetTags |-> <<ClusterName, ClusterName>>]
  ELSE [network |-> Nil, description |-> Nil, targetTags |-> <<ClusterName>>]

FirewallStates == {[k \in S |-> FirewallResource(k)] : S \in SUBSET Range(FirewallOrder)}

InstanceStates(nets) ==
  IF nets = <<>> THEN {<<>>}
  ELSE {<<>>,
        [k \in {getDefaultBastionName} |->
           [network |-> NetLink, description |-> Nil, tags |-> <<ClusterName \o <<"-bastion">> >>]]}

\* the fault plans: none, or one call of the invocation meeting a fault
NoFault == [at |-> 0, kind |-> "err"]

\* the plans under which the n-th call of an invocation can be run: no fault,
\* or a fault on that call
Faults(n) ==
  {NoFault} \cup
  (IF n <= MaxFaultAt THEN [at : {n}, kind : {"err", "operr", "gone"}] ELSE {})

\* the orders in which a map with the keys S can be iterated
Orders(S) ==
  {o \in [1..Cardinality(S) -> S] : \A i, j \in 1..Cardinality(S) : o[i] = o[j] => i = j}

\* the parse service's inputs: every string over the alphabet up to MaxRefLen,
\* and the reference of the repository's test
RefAlphabet == {"/", ":", "?", "#", "n", "x"}
TestRef == <<"projects", "/", "myproject", "/", "global", "/", "networks", "/", "my-network">>
RefStrings == UNION {[1..n -> RefAlphabet] : n \in 0..MaxRefLen} \cup {TestRef}

----------------------------------------------------------------------------
(* The state machine.  An invocation advances one remote call at a time:   *)
(* the step that starts it issues its first call, each later step its next  *)
(* call, and the step in which no further call follows is its return.       *)
(* Between two steps the provider and the status are as the invocation has  *)
(* left them so far.  The caller runs the invocations for one cluster one   *)
(* after the other, so no other operation steps while one is in flight; the *)
(* other parties at the provider show as the faults a call can meet.        *)

InitNetwork ==
  /\ svc \in {"networks", "compute"}
  /\ sharedVpc \in (IF svc = "networks" THEN BOOLEAN ELSE {FALSE})
  /\ \E nets \in NetworkStates :
       \E subs \in SubnetworkStates(nets), rtr \in RouterStates(nets), rts \in RouteStates(nets) :
         cloud = [EmptyCloud EXCEPT !["networks"] = nets, !["subnetworks"] = subs,
                                    !["routers"] = rtr, !["routes"] = rts]
  /\ \E a \in {"unset", "false"}, recorded \in BOOLEAN,
        fl \in (IF svc = "compute" THEN SUBSET (1..NumSubnets) ELSE {1..NumSubnets}) :
       status = [NoStatus EXCEPT !.specAuto = a,
                                 !.specFlowLogs = fl,
                                 !.netLink = IF recorded THEN NetLink ELSE Nil,
                                 !.routerLink = IF recorded THEN RouterLink ELSE Nil]
  /\ ref = Nil

\* a name outside the declared set that the status mapping (a map[string]string
\* of the persisted status object) can hold from an earlier declared set
OtherRecordedRule == <<"fw-untagged">>

\* the names the status mapping may hold when an invocation starts
RecordableRules == {HealthCheckRule, ClusterRule, OtherRecordedRule}

\* the value recorded under a name: the rule's self-link for a declared rule,
\* the self-link of the time it was written for the other name
RecordedLink(k) ==
  IF k = OtherRecordedRule THEN <<"old/">> \o SelfLink("firewalls", k)
  ELSE SelfLink("firewalls", k)

\* a mapping that holds the other name is paired with the projects whose
\* rules are among the recordable ones
InitFirewall ==
  /\ svc = "firewall"
  /\ sharedVpc = FALSE
  /\ \E fws \in FirewallStates, S \in SUBSET RecordableRules, link \in {Nil, NetLink} :
       /\ OtherRecordedRule \in S => DOMAIN fws \subseteq RecordableRules
       /\ cloud = [EmptyCloud EXCEPT
                     !["networks"] = [k \in {NetworkName} |-> [description |-> OwnTag, auto |-> TRUE]],
                     !["firewalls"] = fws]
       /\ status = [NoStatus EXCEPT !.netLink = link,
                                    !.fwRules = [k \in S |-> RecordedLink(k)]]
  /\ ref = Nil

InitBastion ==
  /\ svc = "bastion"
  /\ sharedVpc = FALSE
  /\ \E nets \in NetworkStates : \E inst \in InstanceStates(nets) :
       cloud = [EmptyCloud EXCEPT !["networks"] = nets, !["instances"] = inst]
  /\ \E recorded \in BOOLEAN, link \in {Nil, NetLink} :
       status = [NoStatus EXCEPT !.netLink = link,
                                 !.bastionLink = IF recorded THEN SelfLink("instances", getDefaultBastionName) ELSE Nil,
                                 !.bastionStatus = IF recorded THEN <<"RUNNING">> ELSE Nil]
  /\ ref = Nil

InitParse ==
  /\ svc = "parse"
  /\ sharedVpc = FALSE
  /\ cloud = EmptyCloud
  /\ status = NoStatus
  /\ ref \in RefStrings

\* no invocation has run yet
Idle ==
  /\ lastOp = "none"
  /\ lastFault = NoFault
  /\ calls = <<>>
  /\ result = "none"
  /\ again = FALSE
  /\ retry = FALSE
  /\ entryCloud = EmptyCloud
  /\ entryStatus = NoStatus
  /\ parsed = [name |-> Nil, err |-> FALSE]

Init ==
  /\ InitNetwork \/ InitFirewall \/ InitBastion \/ InitParse
  /\ Idle

\* an invocation is blocked in a remote call
InFlight == result = "running"

\* the ends of an invocation after which the caller invokes it again
Interrupted == {"err", "panic", "crashed"}

\* the provider state and the status the invocation that takes the next step
\* started from: its own entry state when it is in flight, the current state
\* when the step starts it
CloudAtEntry == IF InFlight THEN entryCloud ELSE cloud
StatusAtEntry == IF InFlight THEN entryStatus ELSE status

\* the calls the invocation in flight has been through, and the fault it has met
Progress == IF InFlight THEN Len(calls) ELSE 0
FaultSoFar == IF InFlight THEN lastFault ELSE NoFault

\* the fault plans of the next step: the fault met so far, or else none yet or
\* one on the call this step issues
Plans == IF FaultSoFar # NoFault THEN {FaultSoFar} ELSE Faults(Progress + 1)

\* the invocation from its entry with the fault plan f, run through one call
\* more than it has been
Start(f) ==
  [cloud |-> CloudAtEntry, status |-> StatusAtEntry, calls |-> <<>>, fault |-> f,
   upto |-> Progress + 1, whole |-> FALSE, cut |-> FALSE, hit |-> FALSE,
   frozen |-> StatusAtEntry]

\* the invocation from the provider state c and the status st, run through to
\* its return without a fault
Whole(c, st) ==
  [cloud |-> c, status |-> st, calls |-> <<>>, fault |-> NoFault,
   upto |-> 0, whole |-> TRUE, cut |-> FALSE, hit |-> FALSE, frozen |-> st]

\* the fault plan is the one the invocation runs under already, or its fault
\* fell on the call of this step, of a verb and a target it can affect
Applies(f, r) == f = FaultSoFar \/ r.hit

\* one step of the invocation of op: the step that starts it, or the next step
\* of the one in flight; r is where the invocation stands after the call of
\* this step, and after what follows it up to the next call
Finish(op, f, r) ==
  /\ InFlight => lastOp = op
  /\ Applies(f, r)
  /\ SubSeq(r.calls, 1, Progress) = SubSeq(calls, 1, Progress)
  /\ cloud' = r.cloud
  /\ status' = r.status
  /\ calls' = r.calls
  /\ result' = r.res
  /\ lastOp' = op
  /\ lastFault' = f
  /\ again' = IF InFlight THEN again ELSE (lastOp = op /\ result = "ok")
  /\ retry' = IF InFlight THEN retry ELSE (lastOp = op /\ result \in Interrupted)
  /\ entryCloud' = IF r.res = "running" THEN CloudAtEntry ELSE EmptyCloud
  /\ entryStatus' = IF r.res = "running" THEN StatusAtEntry ELSE NoStatus
  /\ UNCHANGED <<svc, sharedVpc, ref, parsed>>

\* one step of Service.Reconcile, and likewise below for each operation
DoReconcile ==
  /\ svc = "networks"
  /\ \E f \in Plans : Finish("Reconcile", f, Reconcile(Start(f)))

DoDelete ==
  /\ svc = "networks"
  /\ \E f \in Plans : Finish("Delete", f, Delete(Start(f)))

DoReconcileNetwork ==
  /\ svc = "compute"
  /\ \E f \in Plans : Finish("ReconcileNetwork", f, ReconcileNetwork(Start(f)))

DoDeleteNetwork ==
  /\ svc = "compute"
  /\ \E f \in Plans : Finish("DeleteNetwork", f, DeleteNetwork(Start(f)))

DoReconcileFirewalls ==
  /\ svc = "firewall"
  /\ \E f \in Plans : Finish("ReconcileFirewalls", f, ReconcileFirewalls(Start(f)))

DoDeleteFirewalls ==
  /\ svc = "firewall"
  /\ \E ord \in Orders(DOMAIN StatusAtEntry.fwRules) :
       \E f \in Plans :
         Finish("DeleteFirewalls", f, DeleteFirewalls(Start(f), ord))

DoReconcileBastion ==
  /\ svc = "bastion"
  /\ \E f \in Plans : Finish("ReconcileBastion", f, ReconcileBastion(Start(f)))

DoDeleteBastion ==
  /\ svc = "bastion"
  /\ \E f \in Plans : Finish("DeleteBastion", f, DeleteBastion(Start(f)))

\* the request the invocation in flight has had accepted and not yet waited
\* for: its last call, when that is a mutation (for a mutation that is done
\* already, carrying it out changes nothing)
Pending == InFlight /\ calls # <<>> /\ calls[Len(calls)].verb \in {"Insert", "Delete", "Patch"}

\* the process stops while an invocation is blocked in a call: what the
\* invocation has done so far stays, the rest of it never happens.  A request
\* the provider has accepted is out of the process's hands: the provider
\* carries it out, or its operation fails and nothing changes
Crash ==
  /\ svc \in {"networks", "compute", "firewall", "bastion"}
  /\ InFlight
  /\ result' = "crashed"
  /\ cloud' \in {cloud} \cup (IF Pending THEN {Carried(cloud, calls[Len(calls)])} ELSE {})
  /\ entryCloud' = EmptyCloud
  /\ entryStatus' = NoStatus
  /\ UNCHANGED <<svc, sharedVpc, status, lastOp, lastFault, calls, again, retry, ref, parsed>>

DoParse ==
  /\ svc = "parse"
  /\ lastOp = "none"
  /\ parsed' = getFirewallNetworkName(ref)
  /\ lastOp' = "getFirewallNetworkName"
  /\ UNCHANGED <<svc, sharedVpc, cloud, status, lastFault, calls, result, again, retry,
                 entryCloud, entryStatus, ref>>

Next ==
  \/ DoReconcile
  \/ DoDelete
  \/ DoReconcileNetwork
  \/ DoDeleteNetwork
  \/ DoReconcileFirewalls
  \/ DoDeleteFirewalls
  \/ DoReconcileBastion
  \/ DoDeleteBastion
  \/ DoParse
  \/ Crash

Spec == Init /\ [][Next]_vars

----------------------------------------------------------------------------
(* Properties *)

Mutates(c) == c.verb \in {"Insert", "Delete", "Patch"}

NoMutation(cs) == \A i \in 1..Len(cs) : ~Mutates(cs[i])

\* the positions of the calls of a verb on a kind
At(cs, verb, kind) == {i \in 1..Len(cs) : cs[i].verb = verb /\ cs[i].kind = kind}

NetworkPresent(c) == Exists(c, "networks", NetworkName)

NetworkOwned(c) ==
  NetworkPresent(c) /\ c["networks"][NetworkName].description = OwnTag

NetworkForeign(c) ==
  NetworkPresent(c) /\ c["networks"][NetworkName].description # OwnTag

\* the step is the one with which an invocation of one of the operations
\* returns; CloudAtEntry and StatusAtEntry are then what it started from
Returns(ops) == lastOp' \in ops /\ result' \notin {"running", "crashed"}

\* C1: a reconcile that follows a successful reconcile of the same kind issues
\* no Insert and no Patch and leaves the status as it was, whatever faults it
\* meets; when it meets none, it returns success.
C1_ReconcileIdempotent ==
  [][(/\ Returns({"Reconcile", "ReconcileFirewalls", "ReconcileBastion"})
      /\ again')
     => (/\ \A i \in 1..Len(calls') : calls'[i].verb \notin {"Insert", "Patch"}
         /\ status' = StatusAtEntry
         /\ cloud' = CloudAtEntry
         /\ (lastFault'.at = 0 => result' = "ok"))]_vars

\* C1 witness: a second network reconcile in a row, after one that created the
\* router, found everything in place and returned success.
C1_Witness ==
  /\ again
  /\ lastOp = "Reconcile"
  /\ result = "ok"
  /\ lastFault.at = 0
  /\ At(calls, "Get", "routers") # {}
  /\ At(calls, "Insert", "routers") = {}
  /\ status.routerLink = RouterLink

\* C2: when the network exists under a foreign description, Delete and
\* DeleteNetwork issue no mutating call and leave the provider as it was; when
\* the Get returns the network, they return success.
C2_ForeignNetworkUntouched ==
  [][(Returns({"Delete", "DeleteNetwork"}) /\ NetworkForeign(CloudAtEntry))
     => (/\ NoMutation(calls')
         /\ cloud' = CloudAtEntry
         /\ (lastFault'.at = 0 => result' = "ok"))]_vars

\* C2 witness: a Delete that fetched a foreign network while a router and a
\* subnetwork were there to delete, and returned success after the one Get.
C2_Witness ==
  /\ lastOp = "Delete"
  /\ ~sharedVpc
  /\ result = "ok"
  /\ NetworkForeign(cloud)
  /\ Len(calls) = 1
  /\ Exists(cloud, "routers", getRouterName(NetworkName))
  /\ DOMAIN cloud["subnetworks"] # {}

\* C3: when the network Get returns NotFound, Delete and DeleteNetwork return
\* success and issue no mutating call.
C3_AbsentNetworkIsSuccess ==
  [][(/\ Returns({"Delete", "DeleteNetwork"})
      /\ ~NetworkPresent(CloudAtEntry)
      /\ lastFault'.at = 0)
     => (result' = "ok" /\ NoMutation(calls') /\ cloud' = CloudAtEntry)]_vars

\* C3 witness: a DeleteNetwork whose only call, the network Get, found nothing.
C3_Witness ==
  /\ lastOp = "DeleteNetwork"
  /\ result = "ok"
  /\ ~NetworkPresent(cloud)
  /\ Len(calls) = 1
  /\ calls[1].verb = "Get" /\ calls[1].kind = "networks"

\* C4: within one Delete or DeleteNetwork, the router Delete precedes every
\* subnetwork Delete, every subnetwork Delete precedes the network Delete, and
\* the network Delete follows the router Delete.
C4_DeletionOrder ==
  lastOp \in {"Delete", "DeleteNetwork"} =>
    /\ \A i \in At(calls, "Delete", "routers") :
         \A j \in At(calls, "Delete", "subnetworks") \cup At(calls, "Delete", "networks") : i < j
    /\ \A i \in At(calls, "Delete", "subnetworks") :
         \A j \in At(calls, "Delete", "networks") : i < j

\* C4 witness: a Delete of an owned custom-mode network that deleted the router,
\* a subnetwork and the network.
C4_Witness ==
  /\ lastOp = "Delete"
  /\ result = "ok"
  /\ At(calls, "Delete", "routers") # {}
  /\ At(calls, "Delete", "subnetworks") # {}
  /\ At(calls, "Delete", "networks") # {}

\* C5: in shared-VPC mode Reconcile and Delete issue no Insert and no Delete on
\* the network, subnetwork and router clients, and Delete leaves the status
\* self-links nil.
C5_SharedVpcNoMutation ==
  (sharedVpc /\ lastOp \in {"Reconcile", "Delete"}) =>
    /\ \A i \in 1..Len(calls) :
         calls[i].verb \in {"Insert", "Delete"} =>
           calls[i].kind \notin {"networks", "subnetworks", "routers"}
    /\ (lastOp = "Delete" => status.netLink = Nil /\ status.routerLink = Nil)

\* the rule refers to the cluster's network and carries the cluster's name as a
\* target tag
SweepMatch(f) ==
  LastSplit(f.network) = NetworkName /\ ClusterName \in Range(f.targetTags)

\* C6: once DeleteFirewalls has listed the rules, every Delete it issues goes to
\* a listed rule on the cluster's network tagged with the cluster's name, and
\* when it returns success every such listed rule has been sent a Delete.
C6_SweepPrecision ==
  [][Returns({"DeleteFirewalls"}) =>
       \A l \in At(calls', "List", "firewalls") :
         LET before == {calls'[i].key : i \in {j \in At(calls', "Delete", "firewalls") : j < l}}
             swept == {calls'[i].key : i \in {j \in At(calls', "Delete", "firewalls") : j > l}}
             listed == (DOMAIN CloudAtEntry["firewalls"]) \ before
         IN /\ \A k \in swept : k \in listed /\ SweepMatch(CloudAtEntry["firewalls"][k])
            /\ (result' = "ok" =>
                  \A k \in listed : SweepMatch(CloudAtEntry["firewalls"][k]) => k \in swept)]_vars

\* C6 witness: a sweep that deleted the tagged rule on the cluster's network and
\* left the tagged rule of another network and the untagged rule in place.
C6_Witness ==
  /\ lastOp = "DeleteFirewalls"
  /\ result = "ok"
  /\ \E l \in At(calls, "List", "firewalls") :
       \E i \in At(calls, "Delete", "firewalls") : i > l /\ calls[i].key = <<"fw-tagged">>
  /\ ~Exists(cloud, "firewalls", <<"fw-tagged">>)
  /\ Exists(cloud, "firewalls", <<"fw-elsewhere">>)
  /\ Exists(cloud, "firewalls", <<"fw-untagged">>)

\* a reference path: non-empty names separated by single slashes
IsRefPath(r) ==
  /\ r # Nil
  /\ \A i \in 1..Len(r) : r[i] \notin {":", "?", "#"}
  /\ r[1] # "/"
  /\ r[Len(r)] # "/"
  /\ \A i \in 1..(Len(r) - 1) : ~(r[i] = "/" /\ r[i + 1] = "/")

\* C7: getFirewallNetworkName returns the final path segment of a reference
\* path, and the empty string for an empty network field, both without error.
C7_ReferenceParsing ==
  lastOp = "getFirewallNetworkName" =>
    /\ (ref = Nil => parsed = [name |-> Nil, err |-> FALSE])
    /\ (IsRefPath(ref) => parsed = [name |-> LastSplit(ref), err |-> FALSE])

\* C7 witness: the reference of the repository's test has been parsed.
C7_Witness ==
  /\ lastOp = "getFirewallNetworkName"
  /\ ref = TestRef
  /\ IsRefPath(ref)
  /\ parsed.name = <<"my-network">>

\* the number of Inserts of the n-th declared subnetwork
SubnetInserts(cs, n) ==
  Cardinality({i \in At(cs, "Insert", "subnetworks") : cs[i].key = SubnetNames[n]})

\* C8: from an absent network, without shared VPC and without faults, Reconcile
\* gets, inserts the declared spec once, re-fetches, records the provider's
\* self-link, returns success, and in custom mode has inserted each declared
\* subnetwork once if it was absent and not at all if it existed.
C8_EndToEndCreation ==
  [][(/\ Returns({"Reconcile"})
      /\ ~sharedVpc
      /\ ~NetworkPresent(CloudAtEntry)
      /\ lastFault'.at = 0)
     => (/\ Len(calls') >= 3
         /\ calls'[1] = [verb |-> "Get", kind |-> "networks", key |-> NetworkName, arg |-> NoArg]
         /\ calls'[2] = [verb |-> "Insert", kind |-> "networks", key |-> NetworkName,
                         arg |-> NetworkSpec(StatusAtEntry)]
         /\ calls'[3] = calls'[1]
         /\ At(calls', "Insert", "networks") = {2}
         /\ result' = "ok"
         /\ NetworkPresent(cloud')
         /\ status'.netLink = SelfLink("networks", NetworkName)
         /\ (~cloud'["networks"][NetworkName].auto =>
               \A n \in 1..NumSubnets :
                 SubnetInserts(calls', n) =
                   IF Exists(CloudAtEntry, "subnetworks", SubnetNames[n]) THEN 0 ELSE 1))]_vars

\* C8 witness: a Reconcile that created a custom-mode network, found the first
\* declared subnetwork in place and inserted the second.
C8_Witness ==
  /\ lastOp = "Reconcile"
  /\ result = "ok"
  /\ lastFault.at = 0
  /\ At(calls, "Insert", "networks") = {2}
  /\ ~cloud["networks"][NetworkName].auto
  /\ SubnetInserts(calls, 1) = 0
  /\ SubnetInserts(calls, 2) = 1
  /\ status.netLink = NetLink

\* the description and the tags of a resource
TagsOf(kind, r) ==
  IF kind \in {"networks", "routers", "routes"} THEN {r.description}
  ELSE IF kind = "firewalls" THEN {r.description} \cup Range(r.targetTags)
  ELSE IF kind = "instances" THEN {r.description} \cup Range(r.tags)
  ELSE {}

\* C9: a teardown issues a Delete on a network, router, route, firewall rule or
\* instance only if the resource's own description or tags carry the cluster's
\* ownership tag (a subnetwork carries neither and is left out).
C9_DeleteOnlyOwnTagged ==
  [][Returns({"Delete", "DeleteNetwork", "DeleteFirewalls", "DeleteBastion"}) =>
       \A i \in 1..Len(calls') :
         (/\ calls'[i].verb = "Delete"
          /\ calls'[i].kind # "subnetworks"
          /\ Exists(CloudAtEntry, calls'[i].kind, calls'[i].key)) =>
           OwnTag \in TagsOf(calls'[i].kind, CloudAtEntry[calls'[i].kind][calls'[i].key])]_vars

\* C10: every network, router, firewall rule and instance passed to an Insert
\* carries the cluster's ownership tag as its description or as one of its tags.
C10_InsertedResourcesTagged ==
  \A i \in 1..Len(calls) :
    (calls[i].verb = "Insert" /\ calls[i].kind \in {"networks", "routers", "firewalls", "instances"}) =>
      OwnTag \in TagsOf(calls[i].kind, calls[i].arg)

\* the network, the NAT router and, for a custom-mode network, every declared
\* subnetwork exist, and the status records the self-links of network and router
Converged(c, st) ==
  /\ NetworkPresent(c)
  /\ Exists(c, "routers", getRouterName(NetworkName))
  /\ (~c["networks"][NetworkName].auto =>
        \A n \in 1..NumSubnets : Exists(c, "subnetworks", SubnetNames[n]))
  /\ st.netLink = NetLink
  /\ st.routerLink = RouterLink

\* C11: when a network reconcile that returned an error is re-invoked and no
\* provider call of the retry fails, the retry returns success with network,
\* declared subnetworks and NAT router in place and both self-links recorded
\* (for a network that is absent or owned by the cluster, without shared VPC).
C11_RetryConverges ==
  [][(/\ Returns({"Reconcile", "ReconcileNetwork"})
      /\ retry'
      /\ lastFault'.at = 0
      /\ ~sharedVpc
      /\ ~NetworkForeign(CloudAtEntry))
     => (result' = "ok" /\ Converged(cloud', status'))]_vars

\* the resource refers to a network other than the cluster's
OnOtherNetwork(r) == r.network # Nil /\ r.network # NetLink

\* C12: no invocation for the cluster issues a Delete on a subnetwork, router,
\* route or firewall rule that sits on another network.
C12_NoCrossClusterDelete ==
  [][\A i \in 1..Len(calls') :
       (/\ calls'[i].verb = "Delete"
        /\ calls'[i].kind \in {"subnetworks", "routers", "routes", "firewalls"}
        /\ Exists(CloudAtEntry, calls'[i].kind, calls'[i].key))
       => ~OnOtherNetwork(CloudAtEntry[calls'[i].kind][calls'[i].key])]_vars

\* C13: when the initial network Get fails with an error other than NotFound,
\* DeleteNetwork, ReconcileBastion and DeleteBastion return an error: they
\* neither crash nor return success.
C13_GetFailureIsReturned ==
  (/\ lastOp \in {"DeleteNetwork", "ReconcileBastion", "DeleteBastion"}
   /\ lastFault = [at |-> 1, kind |-> "err"])
  => result = "err"

\* C14: after a teardown that returned success the status it governs is
\* cleared: both self-links after Delete, the firewall mapping after
\* DeleteFirewalls, the bastion self-link and status after DeleteBastion.
C14_StatusClearedOnDelete ==
  result = "ok" =>
    /\ (lastOp = "Delete" => status.netLink = Nil /\ status.routerLink = Nil)
    /\ (lastOp = "DeleteFirewalls" => status.fwRules = <<>>)
    /\ (lastOp = "DeleteBastion" => status.bastionLink = Nil /\ status.bastionStatus = Nil)

\* C15: in Service.Delete a Delete call that meets NotFound, because its
\* target disappeared after it was looked up or listed, does not end the
\* invocation: the next step follows it, and after the last step (the network)
\* the invocation returns success.
C15_NotFoundOnDeleteTolerated ==
  [][(/\ Returns({"Delete"})
      /\ lastFault'.kind = "gone"
      /\ lastFault'.at > 0)
     => \/ Len(calls') > lastFault'.at
        \/ calls'[lastFault'.at].kind = "networks" /\ result' = "ok"]_vars

\* C16: a step of Service.Delete that fails with an error other than NotFound
\* ends the invocation: it returns an error, the failing call is its last
\* call (so no mutating call follows, the network Delete in particular), and
\* the status network and router self-links are as before.
C16_DeleteFailureAborts ==
  [][Returns({"Delete"}) =>
       /\ (lastFault'.at > 0 /\ lastFault'.kind \in {"err", "operr"})
            => /\ result' = "err"
               /\ Len(calls') = lastFault'.at
               /\ (NetworkPresent(CloudAtEntry) => NetworkPresent(cloud'))
       /\ result' = "err"
            => /\ status'.netLink = StatusAtEntry.netLink
               /\ status'.routerLink = StatusAtEntry.routerLink]_vars

\* a Delete that was stopped by a failed subnetwork Delete, self-links recorded
C16_Witness ==
  /\ lastOp = "Delete"
  /\ result = "err"
  /\ lastFault.at > 0
  /\ lastFault.kind \in {"err", "operr"}
  /\ Len(calls) = lastFault.at
  /\ calls[lastFault.at].verb = "Delete"
  /\ calls[lastFault.at].kind = "subnetworks"
  /\ status.netLink # Nil
  /\ NetworkPresent(cloud)

\* C17: a teardown (Service.Delete, DeleteNetwork) issues a router Delete only
\* for a router that exists and whose own description is the cluster's tag.
C17_RouterDeleteGatedOnOwnTag ==
  [][Returns({"Delete", "DeleteNetwork"}) =>
       \A i \in At(calls', "Delete", "routers") :
         /\ Exists(CloudAtEntry, "routers", calls'[i].key)
         /\ CloudAtEntry["routers"][calls'[i].key].description = ClusterTagKey(ClusterName)]_vars

\* the calls of the two kinds come in this order: every Delete of kind a
\* before every Delete of kind b
DeletesBefore(cs, a, b) ==
  \A i \in At(cs, "Delete", a) : \A j \in At(cs, "Delete", b) : i < j

\* C18 (as stated): in Service.Delete every route Delete precedes every
\* subnetwork Delete of the same invocation.
C18_RoutesBeforeSubnets ==
  [][Returns({"Delete"}) => DeletesBefore(calls', "routes", "subnetworks")]_vars

\* C18 (amended): in Service.Delete the steps come in the order router,
\* declared subnetworks, routes, network: every subnetwork Delete precedes
\* every route Delete, the router Delete precedes both and the network Delete
\* follows all of them.
C18_TeardownOrder ==
  [][Returns({"Delete"}) =>
       /\ DeletesBefore(calls', "routers", "subnetworks")
       /\ DeletesBefore(calls', "routers", "routes")
       /\ DeletesBefore(calls', "subnetworks", "routes")
       /\ DeletesBefore(calls', "subnetworks", "networks")
       /\ DeletesBefore(calls', "routes", "networks")
       /\ DeletesBefore(calls', "routers", "networks")]_vars

\* a complete teardown that deleted the router, a subnetwork, a route and the
\* network
C18_Witness ==
  /\ lastOp = "Delete"
  /\ result = "ok"
  /\ At(calls, "Delete", "routers") # {}
  /\ At(calls, "Delete", "subnetworks") # {}
  /\ At(calls, "Delete", "routes") # {}
  /\ At(calls, "Delete", "networks") # {}

\* C19: in shared-VPC mode a Reconcile that finds the network absent returns
\* an error at once: the network Get is its only call, nothing is inserted
\* and the status network and router self-links are not written.
C19_SharedNetworkMustPreExist ==
  [][(/\ Returns({"Reconcile"})
      /\ sharedVpc
      /\ ~NetworkPresent(CloudAtEntry))
     => /\ result' = "err"
        /\ Len(calls') = 1
        /\ calls'[1].verb = "Get" /\ calls'[1].kind = "networks"
        /\ cloud' = CloudAtEntry
        /\ status'.netLink = StatusAtEntry.netLink
        /\ status'.routerLink = StatusAtEntry.routerLink]_vars

\* a shared-VPC Reconcile whose network Get answered NotFound
C19_Witness ==
  /\ lastOp = "Reconcile"
  /\ sharedVpc
  /\ ~NetworkPresent(cloud)
  /\ lastFault.at = 0
  /\ result = "err"
  /\ Len(calls) = 1

\* the invocation touched the router: a call on the router client, or a
\* change of the status router self-link
RouterTouched(cs, st0, st1) ==
  \/ \E i \in 1..Len(cs) : cs[i].kind = "routers"
  \/ st1.routerLink # st0.routerLink

\* C20: Reconcile (and ReconcileNetwork) gets or inserts a router, and writes
\* the status router self-link, only if the description of the network it
\* fetched is the cluster's tag; for a network that existed with another
\* description no router is created and the router self-link is not modified.
C20_RouterGatedOnNetworkOwnership ==
  [][Returns({"Reconcile", "ReconcileNetwork"}) =>
       /\ RouterTouched(calls', StatusAtEntry, status') => NetworkOwned(cloud')
       /\ NetworkForeign(CloudAtEntry) =>
            /\ ~RouterTouched(calls', StatusAtEntry, status')
            /\ cloud'["routers"] = CloudAtEntry["routers"]]_vars

\* a Reconcile that adopted a network of another description: it succeeded,
\* recorded the network self-link and made no call on the router client
C20_Witness ==
  /\ lastOp = "Reconcile"
  /\ result = "ok"
  /\ NetworkForeign(cloud)
  /\ status.netLink = NetLink
  /\ \A i \in 1..Len(calls) : calls[i].kind # "routers"

\* the cluster's router, as the handlers name it
RouterKey == getRouterName(NetworkName)

\* C21: after a successful reconcile of an owned network the cluster's router
\* exists with exactly one NAT config; a router that existed without a NAT
\* config was patched, and for one that had a NAT config no Patch was issued
\* and its NAT configs are as before.
C21_ExactlyOneNatConfig ==
  [][(/\ Returns({"Reconcile", "ReconcileNetwork"})
      /\ result' = "ok"
      /\ NetworkOwned(cloud'))
     => /\ Exists(cloud', "routers", RouterKey)
        /\ Len(cloud'["routers"][RouterKey].nats) = 1
        /\ Exists(CloudAtEntry, "routers", RouterKey) =>
             IF CloudAtEntry["routers"][RouterKey].nats = <<>>
               THEN At(calls', "Patch", "routers") # {}
             ELSE /\ At(calls', "Patch", "routers") = {}
                  /\ cloud'["routers"][RouterKey].nats = CloudAtEntry["routers"][RouterKey].nats]_vars

\* C22: a Service.Reconcile that returns an error leaves the status network
\* self-link and router self-link as they were before the invocation.
C22_StatusOnlyAfterSuccess ==
  [][(Returns({"Reconcile"}) /\ result' = "err")
     => /\ status'.netLink = StatusAtEntry.netLink
        /\ status'.routerLink = StatusAtEntry.routerLink]_vars

\* the names of the declared firewall rules
DeclaredRules(st) == {getFirewallSpecs(st)[i].name : i \in 1..Len(getFirewallSpecs(st))}

\* C23: after a successful ReconcileFirewalls the status mapping has, for each
\* declared rule, an entry under the rule's name holding the self-link the
\* provider gave for it, and every other entry as before; whatever the
\* outcome, a firewall Insert is issued only for a declared rule that was
\* absent, and at most once.
C23_FirewallsRecorded ==
  [][Returns({"ReconcileFirewalls"}) =>
       /\ result' = "ok" =>
            /\ DOMAIN status'.fwRules = DOMAIN StatusAtEntry.fwRules \cup DeclaredRules(StatusAtEntry)
            /\ \A n \in DeclaredRules(StatusAtEntry) :
                 /\ status'.fwRules[n] = SelfLink("firewalls", n)
                 /\ Exists(cloud', "firewalls", n)
            /\ \A n \in DOMAIN StatusAtEntry.fwRules \ DeclaredRules(StatusAtEntry) :
                 status'.fwRules[n] = StatusAtEntry.fwRules[n]
       /\ \A i \in At(calls', "Insert", "firewalls") :
            /\ calls'[i].key \in DeclaredRules(StatusAtEntry)
            /\ ~Exists(CloudAtEntry, "firewalls", calls'[i].key)
            /\ i > 1 /\ calls'[i - 1].verb = "Get" /\ calls'[i - 1].key = calls'[i].key
            /\ \A j \in At(calls', "Insert", "firewalls") : calls'[j].key = calls'[i].key => j = i]_vars

\* a successful ReconcileFirewalls that created one declared rule (Get, Insert,
\* the wait for the operation, Get), found the other, and has both recorded,
\* beside an entry under another name that was in the mapping before and is
\* still there with its value
C23_Witness ==
  /\ lastOp = "ReconcileFirewalls"
  /\ result = "ok"
  /\ Cardinality(At(calls, "Insert", "firewalls")) = 1
  /\ Cardinality(At(calls, "Wait", "firewalls")) = 1
  /\ Len(calls) = 5
  /\ DeclaredRules(status) \subseteq DOMAIN status.fwRules
  /\ OtherRecordedRule \in DOMAIN status.fwRules
  /\ status.fwRules[OtherRecordedRule] = RecordedLink(OtherRecordedRule)

\* the invocation issued a Delete of the rule, the request did not fail, and
\* the wait for its operation, when one followed, did not fail either
DeleteConfirmed(cs, f, n) ==
  \E i \in At(cs, "Delete", "firewalls") :
    /\ cs[i].key = n
    /\ ~(f.at = i /\ f.kind \in {"err", "operr"})
    /\ ~(f.at = i + 1 /\ i < Len(cs) /\ cs[i + 1].verb = "Wait")

\* C24: DeleteFirewalls removes a name from the status mapping only when the
\* Delete of that rule succeeded or answered NotFound: every name it removed
\* has a confirmed Delete and names no rule any more, the entries it kept are
\* as before, after an error every name without a confirmed Delete is still in
\* the mapping, and after success the mapping is empty.  It is stated for every
\* step of the invocation, so it holds after each remote call and not only
\* at the return.
C24_FirewallMappingConsistent ==
  [][(lastOp' = "DeleteFirewalls" /\ result' # "crashed") =>
       /\ DOMAIN status'.fwRules \subseteq DOMAIN StatusAtEntry.fwRules
       /\ \A n \in DOMAIN status'.fwRules : status'.fwRules[n] = StatusAtEntry.fwRules[n]
       /\ \A n \in DOMAIN StatusAtEntry.fwRules :
            IF n \in DOMAIN status'.fwRules
              THEN result' \in {"err", "running"}
            ELSE DeleteConfirmed(calls', lastFault', n) /\ ~Exists(cloud', "firewalls", n)
       /\ result' = "ok" => status'.fwRules = <<>>]_vars

\* a DeleteFirewalls over two recorded names: the first rule was deleted and
\* waited for and its name is removed; the wait for the second failed, and
\* the second name is kept
C24_Witness ==
  /\ lastOp = "DeleteFirewalls"
  /\ result = "err"
  /\ lastFault.at = 4
  /\ Len(calls) = 4
  /\ calls[1].verb = "Delete" /\ calls[2].verb = "Wait"
  /\ calls[3].verb = "Delete" /\ calls[4].verb = "Wait"
  /\ DOMAIN status.fwRules = {calls[3].key}
  /\ calls[1].key # calls[3].key

\* C25: when the network is absent or carries another description,
\* ReconcileBastion and DeleteBastion issue no call on the instance client,
\* change nothing at the provider and, the network Get having answered, return
\* success; when the network is owned and the bastion instance is absent,
\* DeleteBastion issues no instance Delete and, no call having failed, returns
\* success.
C25_BastionOwnershipGate ==
  [][Returns({"ReconcileBastion", "DeleteBastion"}) =>
       /\ ~NetworkOwned(CloudAtEntry) =>
            /\ \A i \in 1..Len(calls') : calls'[i].kind # "instances"
            /\ cloud' = CloudAtEntry
            /\ lastFault'.at = 0 => result' = "ok"
       /\ (/\ Returns({"DeleteBastion"})
           /\ NetworkOwned(CloudAtEntry)
           /\ ~Exists(CloudAtEntry, "instances", getDefaultBastionName)) =>
            /\ At(calls', "Delete", "instances") = {}
            /\ lastFault'.at = 0 => result' = "ok"]_vars

\* a DeleteBastion that stopped at the gate: the network carries another
\* description, the bastion instance exists and is left alone
C25_Witness ==
  /\ lastOp = "DeleteBastion"
  /\ result = "ok"
  /\ NetworkForeign(cloud)
  /\ Exists(cloud, "instances", getDefaultBastionName)
  /\ Len(calls) = 1

\* the mutating calls of a call log: verb, kind and name of each
MutatingCalls(cs) ==
  {<<cs[i].verb, cs[i].kind, cs[i].key>> :
     i \in {j \in 1..Len(cs) : cs[j].verb \in {"Insert", "Delete", "Patch"}}}

\* the status contents earlier cycles can have left: each self-link recorded or
\* not, any of the declared firewall rules recorded
StatusVariants(st) ==
  {[st EXCEPT !.netLink = IF n THEN NetLink ELSE Nil,
              !.routerLink = IF r THEN RouterLink ELSE Nil,
              !.fwRules = [k \in S |-> SelfLink("firewalls", k)],
              !.bastionLink = IF b THEN SelfLink("instances", getDefaultBastionName) ELSE Nil,
              !.bastionStatus = IF b THEN <<"RUNNING">> ELSE Nil] :
     n \in BOOLEAN, r \in BOOLEAN, b \in BOOLEAN, S \in SUBSET {HealthCheckRule, ClusterRule}}

\* the outcomes of the operation, without failure, from the provider state c
\* and the status st
Outcomes(op, c, st) ==
  LET m == Whole(c, st) IN
  IF op = "Reconcile" THEN {Reconcile(m)}
  ELSE IF op = "Delete" THEN {Delete(m)}
  ELSE IF op = "ReconcileNetwork" THEN {ReconcileNetwork(m)}
  ELSE IF op = "DeleteNetwork" THEN {DeleteNetwork(m)}
  ELSE IF op = "ReconcileFirewalls" THEN {ReconcileFirewalls(m)}
  ELSE IF op = "DeleteFirewalls" THEN {DeleteFirewalls(m, ord) : ord \in Orders(DOMAIN st.fwRules)}
  ELSE IF op = "ReconcileBastion" THEN {ReconcileBastion(m)}
  ELSE {DeleteBastion(m)}

Operations ==
  {"Reconcile", "Delete", "ReconcileNetwork", "DeleteNetwork", "ReconcileFirewalls",
   "DeleteFirewalls", "ReconcileBastion", "DeleteBastion"}

\* C26: the mutating calls of an operation and the provider state it leaves
\* depend on the provider state and the declared spec alone: the same
\* operation started from the same provider state with any other status
\* contents issues the same mutating calls and leaves the same provider state.
C26_Stateless ==
  [][(Returns(Operations) /\ lastFault'.at = 0) =>
       \A st2 \in StatusVariants(StatusAtEntry) :
         \A r \in Outcomes(lastOp', CloudAtEntry, st2) :
           /\ MutatingCalls(r.calls) = MutatingCalls(calls')
           /\ r.cloud = cloud']_vars

\* C27: Reconcile and ReconcileNetwork insert the network only after the
\* network Get of the same invocation answered NotFound: a network Insert is
\* the second call, after a network Get that did not fail, of an invocation
\* that found the network absent, and there is at most one; when the Get
\* fails with another error the invocation returns an error and the Get is its
\* only call.
C27_NetworkNeverRecreated ==
  [][Returns({"Reconcile", "ReconcileNetwork"}) =>
       /\ \A i \in At(calls', "Insert", "networks") :
            /\ i = 2
            /\ calls'[1].verb = "Get" /\ calls'[1].kind = "networks"
            /\ lastFault'.at # 1
            /\ ~NetworkPresent(CloudAtEntry)
       /\ lastFault'.at = 1 =>
            /\ result' = "err"
            /\ Len(calls') = 1
            /\ cloud' = CloudAtEntry]_vars

\* a reconcile whose network Get failed while the network was absent: it
\* returned the error after that one call and the network is still absent
C27_Witness ==
  /\ lastOp \in {"Reconcile", "ReconcileNetwork"}
  /\ lastFault = [at |-> 1, kind |-> "err"]
  /\ result = "err"
  /\ Len(calls) = 1
  /\ ~NetworkPresent(cloud)

----------------------------------------------------------------------------
(* The life of one cluster: from an empty project the caller reconciles the *)
(* network, then the firewall rules, each until it succeeds, and then       *)
(* tears down by calling the two Delete operations again and again, in any  *)
(* order, the provider failing no more.  svc tells which network service    *)
(* the caller drives.                                                       *)

LifecycleInit ==
  /\ svc \in {"lifecycle", "lifecycle-legacy"}
  /\ sharedVpc = FALSE
  /\ cloud = EmptyCloud
  /\ \E a \in {"unset", "false"},
        fl \in (IF svc = "lifecycle-legacy" THEN SUBSET (1..NumSubnets) ELSE {1..NumSubnets}) :
       status = [NoStatus EXCEPT !.specAuto = a, !.specFlowLogs = fl]
  /\ ref = Nil
  /\ Idle

NetworkReconciling == lastOp = "none" \/ (lastOp \in {"Reconcile", "ReconcileNetwork"} /\ result # "ok")

FirewallReconciling ==
  \/ lastOp \in {"Reconcile", "ReconcileNetwork"} /\ result = "ok"
  \/ lastOp = "ReconcileFirewalls" /\ result # "ok"

Reconciled == lastOp = "ReconcileFirewalls" /\ result = "ok"

Deleting == Reconciled \/ lastOp \in {"Delete", "DeleteNetwork", "DeleteFirewalls"}

LcReconcile ==
  /\ svc = "lifecycle"
  /\ NetworkReconciling
  /\ \E f \in Plans : Finish("Reconcile", f, Reconcile(Start(f)))

LcReconcileNetwork ==
  /\ svc = "lifecycle-legacy"
  /\ NetworkReconciling
  /\ \E f \in Plans :
       Finish("ReconcileNetwork", f, ReconcileNetwork(Start(f)))

LcReconcileFirewalls ==
  /\ FirewallReconciling
  /\ \E f \in Plans :
       Finish("ReconcileFirewalls", f, ReconcileFirewalls(Start(f)))

LcDelete ==
  /\ svc = "lifecycle"
  /\ Deleting
  /\ Finish("Delete", NoFault, Delete(Start(NoFault)))

LcDeleteNetwork ==
  /\ svc = "lifecycle-legacy"
  /\ Deleting
  /\ Finish("DeleteNetwork", NoFault, DeleteNetwork(Start(NoFault)))

LcDeleteFirewalls ==
  /\ Deleting
  /\ \E ord \in Orders(DOMAIN StatusAtEntry.fwRules) :
       Finish("DeleteFirewalls", NoFault, DeleteFirewalls(Start(NoFault), ord))

LifecycleNext ==
  \/ LcReconcile
  \/ LcReconcileNetwork
  \/ LcReconcileFirewalls
  \/ LcDelete
  \/ LcDeleteNetwork
  \/ LcDeleteFirewalls

\* the step of op without a fault, which leaves the invocation at r, can be
\* taken and changes the state
Changes(op, r) ==
  /\ InFlight => lastOp = op
  /\ FaultSoFar = NoFault
  /\ <<r.cloud, r.status, r.calls, r.res, op, NoFault,
       IF InFlight THEN again ELSE (lastOp = op /\ result = "ok"),
       IF InFlight THEN retry ELSE (lastOp = op /\ result \in Interrupted),
       IF r.res = "running" THEN CloudAtEntry ELSE EmptyCloud,
       IF r.res = "running" THEN StatusAtEntry ELSE NoStatus>>
       # <<cloud, status, calls, result, lastOp, lastFault, again, retry, entryCloud, entryStatus>>

\* ENABLED <<LcDelete>>_vars, ENABLED <<LcDeleteNetwork>>_vars and
\* ENABLED <<LcDeleteFirewalls>>_vars, written as state predicates
CanDelete ==
  svc = "lifecycle" /\ Deleting /\ Changes("Delete", Delete(Start(NoFault)))

CanDeleteNetwork ==
  svc = "lifecycle-legacy" /\ Deleting /\ Changes("DeleteNetwork", DeleteNetwork(Start(NoFault)))

CanDeleteFirewalls ==
  /\ Deleting
  /\ \E ord \in Orders(DOMAIN StatusAtEntry.fwRules) :
       Changes("DeleteFirewalls", DeleteFirewalls(Start(NoFault), ord))

\* the caller retries each Delete operation for as long as it has to, and an
\* invocation it has started runs on: an operation is blocked only while an
\* invocation of the other is in flight, so each of the three Delete actions
\* is strongly fair, in the form <>[]~ENABLED <<A>>_vars \/ []<><<A>>_vars
\* with the enabling condition above
LifecycleSpec ==
  /\ LifecycleInit
  /\ [][LifecycleNext]_vars
  /\ (<>[](~CanDeleteFirewalls) \/ []<><<LcDeleteFirewalls>>_vars)
  /\ (<>[](~CanDelete) \/ []<><<LcDelete>>_vars)
  /\ (<>[](~CanDeleteNetwork) \/ []<><<LcDeleteNetwork>>_vars)

\* nothing of what the reconciles create is left at the provider
NothingLeft(c) ==
  /\ ~NetworkPresent(c)
  /\ \A n \in 1..NumSubnets : ~Exists(c, "subnetworks", SubnetNames[n])
  /\ ~Exists(c, "routers", RouterKey)
  /\ \A n \in DeclaredRules(NoStatus) : ~Exists(c, "firewalls", n)

\* C28: from an empty project, once the network and the firewall rules have
\* been reconciled with success, the Delete operations retried without
\* further provider failure lead to a state in which the last Delete returned
\* success and neither the network nor a declared subnetwork, the router or a
\* declared firewall rule exists; and whenever the network Delete operation
\* has returned success the network, subnetworks and router are gone, and
\* whenever DeleteFirewalls has returned success the declared rules are gone.
C28_ReconcileThenDeleteCleansUp ==
  /\ Reconciled ~> (Deleting /\ ~Reconciled /\ result = "ok" /\ NothingLeft(cloud))
  /\ []((lastOp \in {"Delete", "DeleteNetwork"} /\ result = "ok") =>
          /\ ~NetworkPresent(cloud)
          /\ \A n \in 1..NumSubnets : ~Exists(cloud, "subnetworks", SubnetNames[n])
          /\ ~Exists(cloud, "routers", RouterKey))
  /\ []((lastOp = "DeleteFirewalls" /\ result = "ok") =>
          \A n \in DeclaredRules(NoStatus) : ~Exists(cloud, "firewalls", n))

\* the end of a life: the network Delete has just removed the network, after
\* the firewall rules, and nothing is left
C28_Witness ==
  /\ svc \in {"lifecycle", "lifecycle-legacy"}
  /\ lastOp \in {"Delete", "DeleteNetwork"}
  /\ result = "ok"
  /\ At(calls, "Delete", "networks") # {}
  /\ At(calls, "Delete", "subnetworks") # {}
  /\ status.fwRules = <<>>
  /\ NothingLeft(cloud)

\* C29: Service.Delete (and DeleteNetwork) issues a route Delete only for a
\* route whose network reference is the cluster's network; a route of a
\* network whose name merely ends with the cluster's network name is not
\* deleted.
C29_OnlyOwnNetworkRoutes ==
  [][Returns({"Delete", "DeleteNetwork"}) =>
       \A i \in At(calls', "Delete", "routes") :
         /\ Exists(CloudAtEntry, "routes", calls'[i].key)
         /\ CloudAtEntry["routes"][calls'[i].key].network = NetLink]_vars

ReconcileOps == {"Reconcile", "ReconcileNetwork", "ReconcileFirewalls", "ReconcileBastion"}

DeleteOps == {"Delete", "DeleteNetwork", "DeleteFirewalls", "DeleteBastion"}

\* every resource of c is a resource of d
Within(c, d) == \A k \in Kinds : DOMAIN c[k] \subseteq DOMAIN d[k]

\* C30: a Reconcile operation issues no Delete call and removes nothing from
\* the provider; a Delete operation issues no Insert and no Patch call and adds
\* nothing; on every path, failing ones included.
C30_DirectionOfMutation ==
  [][/\ Returns(ReconcileOps) =>
          /\ \A i \in 1..Len(calls') : calls'[i].verb # "Delete"
          /\ Within(CloudAtEntry, cloud')
     /\ Returns(DeleteOps) =>
          /\ \A i \in 1..Len(calls') : calls'[i].verb \notin {"Insert", "Patch"}
          /\ Within(cloud', CloudAtEntry)]_vars

\* a Reconcile that failed after it had inserted something
C30_Witness ==
  /\ lastOp = "Reconcile"
  /\ result = "err"
  /\ lastFault.at > 2
  /\ At(calls, "Insert", "networks") # {}
  /\ NetworkPresent(cloud)

====
